---------------------------- MODULE Spec2Model ----------------------------
(***************************************************************************)
(* Form-Corrector: the video analysis pipeline of RecordPage.analyzeVideo  *)
(* (src/unnamed/part_003), its frame worker (src/unnamed/part_005), the    *)
(* adaptive analysis service (src/unnamed/part_004), the pose analysis     *)
(* service (src/src/services/poseAnalysis.js) and the repetition counter   *)
(* (src/src/services/repProgression.js).                                   *)
(*                                                                         *)
(* The module holds several specifications over one set of variables:      *)
(*   Spec / LiveSpec  the batch orchestration of analyzeVideo              *)
(*   AbandonSpec      the orchestration with a caller who leaves the page  *)
(*   FrameSpec        the per-frame pipeline, worker path and fallback     *)
(*   ScoreSpec        adaptive report, error aggregation and scoring       *)
(*   RepSpec          countReps on a tracking-metric series                *)
(*   TripletSpec      identifyReps on lists of peaks and valleys           *)
(*   AvailSpec        detectAvailableLandmarks under two thresholds        *)
(*   ReportSpec       the report for videos with and without pose          *)
(*   AngleSpec        calculateAngle on grid points                        *)
(*   PhaseSpec        identifyPhases on a metric progression               *)
(*   SmoothSpec       calculateSmoothness on a metric progression          *)
(*   FilterSpec       filterSignificantPoints on alternating extrema       *)
(*   MissSpec         collection and aggregation with detector misses      *)
(*   RaceSpec         concurrent analyzeFrame calls on one detector        *)
(* Fractions are kept exact: a confidence is a pair <<num, den>>, metric   *)
(* values are integers in units of 1/1000, smoothed values in 1/60000.     *)
(***************************************************************************)
EXTENDS Integers, Sequences, FiniteSets, TLC

VARIABLES
    pc,            \* position of analyzeVideo
    totalFrames,   \* framesWithLandmarks.length (-1 before extraction)
    worker,        \* per batch: state of its Web Worker
    batchState,    \* per batch: state of its promise chain
    batchResults,  \* per batch: the result list its promise resolved with
    workerPosted,  \* per batch: the results its worker posted (if any)
    workerOutcome, \* per batch: how its worker promise settled
    fallbackRuns,  \* per batch: number of analyzeFramesFallback calls
    resolveOrder,  \* batch indices in the order their promises resolved
    progressLog,   \* every value passed to setAnalysisProgress, in order
    frameResults,  \* frameResults / validFrameResults after the join
    events,        \* what the page did and what the caller saw of it, in order
    io             \* input and output of the pure-function specifications

vars == <<pc, totalFrames, worker, batchState, batchResults, workerPosted,
          workerOutcome, fallbackRuns, resolveOrder, progressLog, frameResults,
          events, io>>

NoValue == [none |-> TRUE]

Min(a, b) == IF a <= b THEN a ELSE b
Max(a, b) == IF a >= b THEN a ELSE b
CeilDiv(a, b) == (a + b - 1) \div b
\* Math.round of the non-negative fraction num/den (ties round up)
RoundDiv(num, den) == (2 * num + den) \div (2 * den)

(***************************************************************************)
(* Batch orchestration (analyzeVideo, part_003 lines 453-890)              *)
(***************************************************************************)

\* upper bound of the frame counts explored
MaxFrames == 152

MaxWorkers == 4
FramesPerWorker == 50

\* const workerCount = Math.min(4, Math.ceil(totalFrames / 50))
workerCount(n) == Min(MaxWorkers, CeilDiv(n, FramesPerWorker))

\* mutant: the batch size is rounded down
frameBatchSize_Floor(n) == IF n = 0 THEN 0 ELSE Max(1, n \div workerCount(n))

\* const frameBatchSize = Math.ceil(totalFrames / workerCount)
\* (NaN for n = 0, where the batching loop does not run at all)
frameBatchSize(n) == IF n = 0 THEN 0 ELSE CeilDiv(n, workerCount(n))

\* number of iterations of: for (i = 0; i < length; i += frameBatchSize)
NumBatches(n) == IF n = 0 THEN 0 ELSE CeilDiv(n, frameBatchSize(n))

BatchIds(n) == 0 .. (NumBatches(n) - 1)

\* framesWithLandmarks.slice(i, i + frameBatchSize) for the idx-th batch:
\* the sequence of the `index` fields of its elements
Batch(n, idx) ==
    LET lo == idx * frameBatchSize(n)
        hi == Min(n, lo + frameBatchSize(n))
    IN  [i \in 1 .. (hi - lo) |-> lo + i - 1]

\* batchIndices = batch.map((_, i) => batchIndex * frameBatchSize + i) and
\* the worker's loop: one record per frame, originalIndex = frameIndices[i]
WorkerResults(n, idx) ==
    [i \in 1 .. Len(Batch(n, idx)) |->
        [originalIndex |-> idx * frameBatchSize(n) + (i - 1),
         via |-> "worker", success |-> TRUE]]

\* analyzeFramesFallback(frameBatch, startIndex): one record per frame,
\* originalIndex = frameBatch[i].index; both branches push success: true
FallbackResults(n, idx) ==
    [i \in 1 .. Len(Batch(n, idx)) |->
        [originalIndex |-> Batch(n, idx)[i],
         via |-> "fallback", success |-> TRUE]]

\* setAnalysisProgress(25 + Math.round(((idx + 1) / batches.length) * 35))
BatchProgress(n, idx) == 25 + RoundDiv((idx + 1) * 35, NumBatches(n))

\* .then(results => { setAnalysisProgress(...); return results; })
ThenHandler(results) == results

\* mutant: the .catch handler re-runs the first batch whichever batch failed
FallbackTargetFirst(idx) == 0

\* which batch the .catch handler hands to analyzeFramesFallback
FallbackTarget(idx) == idx

RECURSIVE FlatFrom(_, _, _)
FlatFrom(res, ids, i) ==
    IF i \notin ids THEN <<>> ELSE res[i] \o FlatFrom(res, ids, i + 1)

RECURSIVE FlatInOrder(_, _)
FlatInOrder(res, order) ==
    IF order = <<>> THEN <<>>
    ELSE res[Head(order)] \o FlatInOrder(res, Tail(order))

\* mutant: the batch results are concatenated in the order they arrived
FlattenInResolveOrder(res, n) == FlatInOrder(res, resolveOrder)

\* Promise.all resolves with the values in the order of the input promises;
\* batchResults.flat()
Flatten(res, n) == FlatFrom(res, BatchIds(n), 0)

\* for (const result of allResults) if (result.success) frameResults.push(...)
SuccessfulResults(all) == SelectSeq(all, LAMBDA r : r.success)

OrchInit ==
    /\ pc = "idle"
    /\ totalFrames = -1
    /\ worker = <<>>
    /\ batchState = <<>>
    /\ batchResults = <<>>
    /\ workerPosted = <<>>
    /\ workerOutcome = <<>>
    /\ fallbackRuns = <<>>
    /\ resolveOrder = <<>>
    /\ progressLog = <<>>
    /\ frameResults = <<>>
    /\ events = <<>>
    /\ io = NoValue

OrchFrame == <<totalFrames, worker, batchState, batchResults, workerPosted,
               workerOutcome, fallbackRuns, resolveOrder, frameResults, events,
               io>>

\* analyzeVideo up to: await getVideoMetadata(videoUrl)
StartAnalysis ==
    /\ pc = "idle"
    /\ pc' = "metadata"
    /\ progressLog' = <<0>>
    /\ UNCHANGED OrchFrame

\* metadata arrived; up to: await extractFramesFromVideo(...)
MetadataLoaded ==
    /\ pc = "metadata"
    /\ pc' = "extracting"
    /\ progressLog' = Append(progressLog, 5)
    /\ UNCHANGED OrchFrame

\* getVideoMetadata or extractFramesFromVideo rejects: catch block, no report
VideoLoadFails ==
    /\ pc \in {"metadata", "extracting"}
    /\ pc' = "failed"
    /\ UNCHANGED <<progressLog, OrchFrame>>

\* frames extracted; batches built; every batch dispatched.  The try block of
\* analyzeFramesBatch either runs through (the worker is running), or new
\* Worker throws (no worker), or a statement after it throws, such as
\* postMessage failing to clone the batch (the worker exists, has no message
\* and stays idle); the catch block rejects and the batch falls back
FramesExtracted ==
    /\ pc = "extracting"
    /\ \E n \in 0 .. MaxFrames :
       \E noWorker \in SUBSET BatchIds(n) :
       \E unposted \in SUBSET (BatchIds(n) \ noWorker) :
        /\ totalFrames' = n
        /\ worker' = [b \in BatchIds(n) |->
                        IF b \in noWorker THEN "none"
                        ELSE IF b \in unposted THEN "idle" ELSE "running"]
        /\ batchState' = [b \in BatchIds(n) |->
                        IF b \in noWorker \cup unposted THEN "rejected" ELSE "pending"]
        /\ workerOutcome' = [b \in BatchIds(n) |->
                        IF b \in noWorker THEN "createFailed"
                        ELSE IF b \in unposted THEN "postFailed" ELSE "pending"]
        /\ batchResults' = [b \in BatchIds(n) |-> <<>>]
        /\ workerPosted' = [b \in BatchIds(n) |-> <<>>]
        /\ fallbackRuns' = [b \in BatchIds(n) |-> 0]
    /\ pc' = "dispatched"
    /\ progressLog' = progressLog \o <<15, 20, 25>>
    /\ UNCHANGED <<resolveOrder, frameResults, events, io>>

\* worker.onmessage with event.data.success: terminate, resolve, then-handler
WorkerReplies(b) ==
    /\ pc = "dispatched"
    /\ b \in DOMAIN batchState
    /\ worker[b] = "running"
    /\ worker' = [worker EXCEPT ![b] = "terminated"]
    /\ workerPosted' = [workerPosted EXCEPT ![b] = WorkerResults(totalFrames, b)]
    /\ batchResults' = [batchResults EXCEPT
                          ![b] = ThenHandler(WorkerResults(totalFrames, b))]
    /\ batchState' = [batchState EXCEPT ![b] = "resolved"]
    /\ workerOutcome' = [workerOutcome EXCEPT ![b] = "success"]
    /\ resolveOrder' = Append(resolveOrder, b)
    /\ progressLog' = Append(progressLog, BatchProgress(totalFrames, b))
    /\ UNCHANGED <<pc, totalFrames, fallbackRuns, frameResults, events, io>>

\* worker.onmessage with success: false (pose initialisation failed in the
\* worker, or its handler threw), or worker.onerror: terminate, reject
WorkerFails(b) ==
    /\ pc = "dispatched"
    /\ b \in DOMAIN batchState
    /\ worker[b] = "running"
    /\ worker' = [worker EXCEPT ![b] = "terminated"]
    /\ batchState' = [batchState EXCEPT ![b] = "rejected"]
    /\ workerOutcome' = [workerOutcome EXCEPT ![b] = "error"]
    /\ UNCHANGED <<pc, totalFrames, batchResults, workerPosted, fallbackRuns,
                   resolveOrder, progressLog, frameResults, events, io>>

\* the worker never posts a message and raises no error
WorkerHangs(b) ==
    /\ pc = "dispatched"
    /\ b \in DOMAIN batchState
    /\ worker[b] = "running"
    /\ worker' = [worker EXCEPT ![b] = "hung"]
    /\ UNCHANGED <<pc, totalFrames, batchState, batchResults, workerPosted,
                   workerOutcome, fallbackRuns, resolveOrder, progressLog,
                   frameResults, events, io>>

\* .catch(err => analyzeFramesFallback(batches[idx], ...)) starts
FallbackStarts(b) ==
    /\ pc = "dispatched"
    /\ b \in DOMAIN batchState
    /\ batchState[b] = "rejected"
    /\ LET t == FallbackTarget(b) IN
        /\ t \in BatchIds(totalFrames)
        /\ fallbackRuns' = [fallbackRuns EXCEPT ![t] = @ + 1]
    /\ batchState' = [batchState EXCEPT ![b] = "fallback"]
    /\ UNCHANGED <<pc, totalFrames, worker, batchResults, workerPosted,
                   workerOutcome, resolveOrder, progressLog, frameResults,
                   events, io>>

\* analyzeFramesFallback returns; the batch promise resolves with its results
FallbackCompletes(b) ==
    /\ pc = "dispatched"
    /\ b \in DOMAIN batchState
    /\ batchState[b] = "fallback"
    /\ batchResults' = [batchResults EXCEPT
                          ![b] = FallbackResults(totalFrames, FallbackTarget(b))]
    /\ batchState' = [batchState EXCEPT ![b] = "resolved"]
    /\ resolveOrder' = Append(resolveOrder, b)
    /\ UNCHANGED <<pc, totalFrames, worker, workerPosted, workerOutcome,
                   fallbackRuns, progressLog, frameResults, events, io>>

\* mutant: the join waits for the first resolved batch only (Promise.any)
SomeResolved == \E b \in BatchIds(totalFrames) : batchState[b] = "resolved"

\* await Promise.all(...): every batch promise has resolved
AllResolved == \A b \in BatchIds(totalFrames) : batchState[b] = "resolved"

\* Promise.all resolves: flatten, collect frameResults, then the synchronous
\* stages up to storageService.saveWorkout (progress 65, 70, 75, 90, 95)
JoinAndAnalyze ==
    /\ pc = "dispatched"
    /\ AllResolved
    /\ frameResults' = SuccessfulResults(Flatten(batchResults, totalFrames))
    /\ progressLog' = progressLog \o <<65, 70, 75, 90, 95>>
    /\ events' = Append(events, "saveWorkout")
    /\ pc' = "saving"
    /\ UNCHANGED <<totalFrames, worker, batchState, batchResults, workerPosted,
                   workerOutcome, fallbackRuns, resolveOrder, io>>

\* the three guarded saves finish; setAnalysisProgress(100); navigate('/results')
FinishAnalysis ==
    /\ pc = "saving"
    /\ progressLog' = Append(progressLog, 100)
    /\ events' = Append(events, "navigate:/results")
    /\ pc' = "done"
    /\ UNCHANGED <<totalFrames, worker, batchState, batchResults, workerPosted,
                   workerOutcome, fallbackRuns, resolveOrder, frameResults, io>>

OrchNext ==
    \/ StartAnalysis
    \/ MetadataLoaded
    \/ VideoLoadFails
    \/ FramesExtracted
    \/ \E b \in 0 .. (MaxWorkers - 1) : WorkerReplies(b)
    \/ \E b \in 0 .. (MaxWorkers - 1) : WorkerFails(b)
    \/ \E b \in 0 .. (MaxWorkers - 1) : WorkerHangs(b)
    \/ \E b \in 0 .. (MaxWorkers - 1) : FallbackStarts(b)
    \/ \E b \in 0 .. (MaxWorkers - 1) : FallbackCompletes(b)
    \/ JoinAndAnalyze
    \/ FinishAnalysis

Spec == OrchInit /\ [][OrchNext]_vars

\* Promise reactions and the in-process fallback always run to completion, and
\* a running worker settles one way or another (reply, failure or hang)
LiveSpec ==
    /\ OrchInit
    /\ [][OrchNext]_vars
    /\ WF_vars(StartAnalysis)
    /\ WF_vars(MetadataLoaded \/ VideoLoadFails)
    /\ WF_vars(FramesExtracted)
    /\ \A b \in 0 .. (MaxWorkers - 1) :
        /\ WF_vars(WorkerReplies(b) \/ WorkerFails(b) \/ WorkerHangs(b))
        /\ WF_vars(FallbackStarts(b))
        /\ WF_vars(FallbackCompletes(b))
    /\ WF_vars(JoinAndAnalyze)
    /\ WF_vars(FinishAnalysis)

Joined == pc \in {"saving", "done"}

IsAscending(seq) == \A i \in 1 .. (Len(seq) - 1) : seq[i] <= seq[i + 1]

(***************************************************************************)
(* C1: whatever the frame count and the order in which the batches         *)
(* complete, the flattened result list handed to the downstream stages     *)
(* holds exactly one result per extracted frame and its k-th result        *)
(* (counting from 0) has originalIndex k.                                   *)
(***************************************************************************)
C1_ResultsInFrameOrder ==
    Joined =>
        /\ Len(frameResults) = totalFrames
        /\ \A k \in 1 .. Len(frameResults) :
              frameResults[k].originalIndex = k - 1

\* four batches joined although the last one resolved before the first, with
\* worker and fallback results mixed
C1_Witness ==
    /\ pc = "done"
    /\ NumBatches(totalFrames) = MaxWorkers
    /\ ~IsAscending(resolveOrder)
    /\ resolveOrder[1] = MaxWorkers - 1
    /\ \E i, j \in 1 .. Len(frameResults) :
          frameResults[i].via = "worker" /\ frameResults[j].via = "fallback"

(***************************************************************************)
(* C2: the in-process fallback runs exactly once for a batch whose worker  *)
(* failed (error reply, error event, failed creation or dispatch) and      *)
(* never for a                                                             *)
(* batch whose worker succeeded or is still pending; a successful worker's *)
(* results reach the joined list unchanged.                                *)
(***************************************************************************)
C2_FallbackOnlyForFailedBatch ==
    \A b \in DOMAIN batchState :
        /\ workerOutcome[b] \in {"pending", "success"} => fallbackRuns[b] = 0
        /\ (workerOutcome[b] \in {"error", "createFailed", "postFailed"}
              /\ batchState[b] \in {"fallback", "resolved"}) => fallbackRuns[b] = 1
        /\ fallbackRuns[b] <= 1
        /\ workerOutcome[b] = "success" =>
              /\ batchState[b] = "resolved"
              /\ batchResults[b] = workerPosted[b]
              /\ Joined => \A i \in 1 .. Len(workerPosted[b]) :
                    frameResults[workerPosted[b][i].originalIndex + 1]
                        = workerPosted[b][i]

\* one batch was re-run by the fallback while another kept its worker results
C2_Witness ==
    /\ Joined
    /\ \E b, c \in DOMAIN batchState :
          /\ workerOutcome[b] = "error" /\ fallbackRuns[b] = 1
          /\ workerOutcome[c] = "success" /\ fallbackRuns[c] = 0

\* the caller leaves while batches are in flight: the Cancel button calls
\* navigate('/') and the page unmounts; the unmount cleanup stops the camera
\* tracks and nothing else, analyzeVideo is not told and keeps running
Abandon ==
    /\ pc = "dispatched"
    /\ \A i \in 1 .. Len(events) : events[i] # "navigate:/"
    /\ events' = Append(events, "navigate:/")
    /\ UNCHANGED <<pc, totalFrames, worker, batchState, batchResults, workerPosted,
                   workerOutcome, fallbackRuns, resolveOrder, progressLog,
                   frameResults, io>>

AbandonNext == OrchNext \/ Abandon

AbandonSpec == OrchInit /\ [][AbandonNext]_vars

(***************************************************************************)
(* C11: once the caller has abandoned the analysis no worker of it is      *)
(* still running, and no workout is saved and no results page is opened    *)
(* after the abandonment.                                                  *)
(***************************************************************************)
C11_AbandonStopsAnalysis ==
    \A i \in 1 .. Len(events) :
        events[i] = "navigate:/" =>
            /\ \A b \in DOMAIN worker : worker[b] # "running"
            /\ \A j \in (i + 1) .. Len(events) :
                  events[j] \notin {"saveWorkout", "navigate:/results"}

(***************************************************************************)
(* C12: the downstream stages (adaptive report, repetition counting,       *)
(* error aggregation, scoring) have started only if every batch has        *)
(* resolved, by its worker's results or by its fallback's, and they work   *)
(* on the results of all batches, never on those of a strict subset.       *)
(***************************************************************************)
C12_DownstreamAfterJoin ==
    Joined =>
        /\ \A b \in BatchIds(totalFrames) :
              /\ batchState[b] = "resolved"
              /\ \/ workerOutcome[b] = "success"
                 \/ fallbackRuns[b] >= 1
              /\ Len(batchResults[b]) = Len(Batch(totalFrames, b))
              /\ \A i \in 1 .. Len(batchResults[b]) :
                    /\ batchResults[b][i].originalIndex + 1 \in DOMAIN frameResults
                    /\ frameResults[batchResults[b][i].originalIndex + 1]
                          = batchResults[b][i]
        /\ Len(resolveOrder) = NumBatches(totalFrames)

\* the downstream stages have run after three batches: the middle one came
\* from the fallback and resolved last
C12_Witness ==
    /\ pc = "saving"
    /\ NumBatches(totalFrames) = 3
    /\ workerOutcome[0] = "success" /\ workerOutcome[2] = "success"
    /\ fallbackRuns[1] = 1
    /\ resolveOrder[3] = 1

(***************************************************************************)
(* C13: for every frame count N >= 1 the batches are at most 4, each is    *)
(* non-empty, they are contiguous and in order, and together they hold     *)
(* every frame index 0 .. N-1 exactly once; one worker per batch, so at    *)
(* most 4 workers exist at any time.                                       *)
(***************************************************************************)
C13_BatchesPartitionFrames ==
    totalFrames >= 1 =>
        LET n == totalFrames
            batches == [b \in BatchIds(n) |-> Batch(n, b)]
            first(b) == batches[b][1]
            last(b) == batches[b][Len(batches[b])]
        IN  /\ workerCount(n) = Min(4, (n + 49) \div 50)
            /\ NumBatches(n) >= 1
            /\ NumBatches(n) <= 4
            /\ \A b \in BatchIds(n) :
                  /\ Len(batches[b]) >= 1
                  /\ first(b) = (IF b = 0 THEN 0 ELSE last(b - 1) + 1)
                  /\ last(b) = first(b) + Len(batches[b]) - 1
                  /\ batches[b][(Len(batches[b]) + 1) \div 2]
                        = first(b) + (Len(batches[b]) + 1) \div 2 - 1
            /\ last(NumBatches(n) - 1) = n - 1
            /\ DOMAIN worker = BatchIds(n)
            /\ Cardinality({b \in DOMAIN worker : worker[b] \in {"running", "hung", "idle"}}) <= 4

\* 151 frames: four batches of 38, 38, 38 and 37 frames, four workers running
C13_Witness ==
    /\ totalFrames = 151
    /\ NumBatches(totalFrames) = 4
    /\ Len(Batch(totalFrames, 3)) = 37
    /\ \A b \in DOMAIN worker : worker[b] = "running"

(***************************************************************************)
(* C9: the progress percentages emitted during one analysis never decrease *)
(* and stay within 0..100, for every order in which the batches complete.  *)
(***************************************************************************)
C9_ProgressMonotonic ==
    /\ IsAscending(progressLog)
    /\ \A i \in 1 .. Len(progressLog) : progressLog[i] \in 0 .. 100

(***************************************************************************)
(* C10: a batch whose worker never replies still gets the fallback, and    *)
(* the analysis eventually completes with a report.                        *)
(***************************************************************************)
C10_HungWorkerFallsBack ==
    \A b \in 0 .. (MaxWorkers - 1) :
        (b \in DOMAIN worker /\ worker[b] = "hung")
            ~> (b \in DOMAIN fallbackRuns /\ fallbackRuns[b] >= 1 /\ pc = "done")


(***************************************************************************)
(* Exercise catalog (config/exercises.js) and the per-frame pipeline:      *)
(* the worker's loop (part_005) and analyzeFramesFallback (part_003)       *)
(***************************************************************************)

\* Object.values(EXERCISES): each entry's id and its validationChecks, in order
EXERCISES ==
    <<[id |-> "squat",
       validationChecks |->
          <<[id |-> "knee_valgus", severity |-> "high"],
            [id |-> "shallow_depth", severity |-> "medium"],
            [id |-> "excessive_lean", severity |-> "medium"],
            [id |-> "heel_lift", severity |-> "high"],
            [id |-> "knee_forward_travel", severity |-> "low"],
            [id |-> "asymmetric_descent", severity |-> "medium"],
            [id |-> "back_rounding_squat", severity |-> "critical"],
            [id |-> "hips_too_far_back", severity |-> "medium"]>>],
      [id |-> "deadlift",
       validationChecks |->
          <<[id |-> "rounded_back", severity |-> "critical"],
            [id |-> "mid_back_rounding", severity |-> "critical"],
            [id |-> "hips_too_low", severity |-> "medium"],
            [id |-> "hips_rising_first", severity |-> "high"],
            [id |-> "hyperextension", severity |-> "medium"],
            [id |-> "shoulders_behind_bar", severity |-> "medium"]>>],
      [id |-> "overhead_press",
       validationChecks |->
          <<[id |-> "back_arch", severity |-> "high"],
            [id |-> "mid_back_rounding_press", severity |-> "medium"],
            [id |-> "incomplete_lockout", severity |-> "medium"],
            [id |-> "elbow_flare_press", severity |-> "medium"],
            [id |-> "forward_press_path", severity |-> "medium"],
            [id |-> "using_leg_drive", severity |-> "low"]>>],
      [id |-> "bench_press",
       validationChecks |->
          <<[id |-> "elbow_flare", severity |-> "high"],
            [id |-> "bar_bounce", severity |-> "medium"],
            [id |-> "uneven_press", severity |-> "medium"],
            [id |-> "wrist_extension", severity |-> "medium"],
            [id |-> "incomplete_lockout_bench", severity |-> "low"]>>],
      [id |-> "pull_up",
       validationChecks |->
          <<[id |-> "partial_rep", severity |-> "medium"],
            [id |-> "shoulder_shrug", severity |-> "medium"],
            [id |-> "excessive_kip", severity |-> "low"],
            [id |-> "elbows_forward", severity |-> "medium"],
            [id |-> "chin_not_over", severity |-> "medium"]>>]>>

Null == [null |-> TRUE]

\* a value that is either an exercise id (a string) or an exercise object
AsId(id) == [isString |-> TRUE, value |-> id]
AsObject(ex) == [isString |-> FALSE, value |-> ex]

RECURSIVE FindExercise(_, _)
FindExercise(id, i) ==
    IF i > Len(EXERCISES) THEN Null
    ELSE IF EXERCISES[i].id = id THEN EXERCISES[i]
    ELSE FindExercise(id, i + 1)

\* mutant: the lookup indexes EXERCISES by its keys (SQUAT, ...), which no id matches
getExerciseByKey(exerciseId) == Null

\* PoseAnalysisService.getExerciseById:
\* Object.values(EXERCISES).find(ex => ex?.id === exerciseId) || null
getExerciseById(exerciseId) == FindExercise(exerciseId, 1)

\* config getExerciseById, the lookup RecordPage stores in `exercise`
configGetExerciseById(id) == FindExercise(id, 1)

\* at most this many rule predicates throw on one pose
MaxThrowingChecks == 1

CheckIds(ex) == {ex.validationChecks[i].id : i \in 1 .. Len(ex.validationChecks)}

\* what the detector can deliver for one image: a rejected promise, no
\* landmarks, landmarks on which the feature extractor throws, or landmarks
\* that make each rule predicate return true, return false or throw
DetectorOutcomes(ex) ==
    {[kind |-> "rejects"], [kind |-> "none"], [kind |-> "unusable"]}
    \cup {[kind |-> "pose", checks |-> f] :
            f \in {g \in [CheckIds(ex) -> {"true", "false", "throws"}] :
                     Cardinality({c \in CheckIds(ex) : g[c] = "throws"})
                        <= MaxThrowingChecks}}

\* the record validateForm pushes for a rule that fired (its id and severity;
\* the texts are constants of the rule)
ErrorOf(check) == [id |-> check.id, severity |-> check.severity]

\* mutant: the first predicate that throws ends the loop
RECURSIVE RunChecks_StopAtThrow(_, _, _)
RunChecks_StopAtThrow(checks, outcome, i) ==
    IF i > Len(checks) \/ outcome[checks[i].id] = "throws" THEN <<>>
    ELSE (IF outcome[checks[i].id] = "true"
            THEN <<ErrorOf(checks[i])>> ELSE <<>>)
         \o RunChecks_StopAtThrow(checks, outcome, i + 1)

\* checks.forEach(check => { try { if (check.validate(...)) errors.push(...) }
\* catch { console.error(...) } })
RECURSIVE RunChecks(_, _, _)
RunChecks(checks, outcome, i) ==
    IF i > Len(checks) THEN <<>>
    ELSE (IF outcome[checks[i].id] = "true"
            THEN <<ErrorOf(checks[i])>> ELSE <<>>)
         \o RunChecks(checks, outcome, i + 1)

\* PoseAnalysisService.validateForm(exerciseOrId, landmarks, angles): a
\* predicate that throws is caught and adds nothing
validateForm(exerciseOrId, pose) ==
    LET exercise == IF exerciseOrId.isString
                      THEN getExerciseById(exerciseOrId.value)
                      ELSE exerciseOrId.value
        checks == IF exercise = Null THEN <<>> ELSE exercise.validationChecks
    IN  RunChecks(checks, pose.checks, 1)

\* PoseAnalysisService.analyzeExercise(exerciseId, landmarks): the features of
\* the exercise's extractor, {} when the id has none
analyzeExercise(exerciseId, pose) ==
    IF exerciseId \in {"squat", "deadlift", "overhead_press", "bench_press",
                       "pull_up"}
      THEN [extractor |-> exerciseId, of |-> pose.checks]
      ELSE [empty |-> TRUE]

\* the record both loops push from their catch block
FailedFrameRecord(originalIndex, time) ==
    [originalIndex |-> originalIndex, time |-> time, landmarks |-> Null,
     errors |-> <<>>, analysis |-> [empty |-> TRUE], success |-> TRUE]

\* one iteration of the worker's loop (part_005 lines 32-91)
WorkerFrameRecord(frame, originalIndex, exerciseId, det) ==
    IF det.kind \in {"rejects", "unusable"}
      THEN FailedFrameRecord(originalIndex, frame.time)
    ELSE IF det.kind = "none"
      THEN [originalIndex |-> originalIndex, time |-> frame.time,
            landmarks |-> Null, errors |-> <<>>,
            analysis |-> [empty |-> TRUE], success |-> TRUE]
    ELSE [originalIndex |-> originalIndex, time |-> frame.time,
          landmarks |-> det,
          errors |-> validateForm(AsId(exerciseId), det),
          analysis |-> analyzeExercise(exerciseId, det),
          success |-> TRUE]

\* one iteration of analyzeFramesFallback (part_003 lines 393-449)
FallbackFrameRecord(entry, exercise, det) ==
    IF det.kind \in {"rejects", "unusable"}
      THEN FailedFrameRecord(entry.index, entry.frame.time)
    ELSE IF det.kind = "none"
      THEN [originalIndex |-> entry.index, time |-> entry.frame.time,
            landmarks |-> Null, errors |-> <<>>,
            analysis |-> [empty |-> TRUE], success |-> TRUE]
    ELSE [originalIndex |-> entry.index, time |-> entry.frame.time,
          landmarks |-> det,
          errors |-> validateForm(AsObject(exercise), det),
          analysis |-> analyzeExercise(exercise.id, det),
          success |-> TRUE]

\* the frames the per-frame specification feeds in: {index, frame: {time}}
SampleFrames == {[index |-> 0, frame |-> [time |-> 0]],
                 [index |-> 7, frame |-> [time |-> 350]]}

OrchIdle ==
    /\ totalFrames = -1
    /\ worker = <<>>
    /\ batchState = <<>>
    /\ batchResults = <<>>
    /\ workerPosted = <<>>
    /\ workerOutcome = <<>>
    /\ fallbackRuns = <<>>
    /\ resolveOrder = <<>>
    /\ progressLog = <<>>
    /\ frameResults = <<>>
    /\ events = <<>>

OrchVars == <<totalFrames, worker, batchState, batchResults, workerPosted,
              workerOutcome, fallbackRuns, resolveOrder, progressLog,
              frameResults, events>>

\* RecordPage holds exercise = getExerciseById(exerciseId) of a catalog id;
\* the detector output for the frame's image is the same on both paths
FrameInit ==
    /\ pc = "frame"
    /\ OrchIdle
    /\ \E e \in 1 .. Len(EXERCISES) :
       \E entry \in SampleFrames :
       \E det \in DetectorOutcomes(EXERCISES[e]) :
          io = [exercise |-> configGetExerciseById(EXERCISES[e].id),
                entry |-> entry, det |-> det,
                workerRecord |-> NoValue, fallbackRecord |-> NoValue]

\* the frame goes through the worker: frames[i] = {imageData, time, dataUrl},
\* frameIndices[i] = its index, exerciseId = exercise.id
AnalyzeInWorker ==
    /\ pc = "frame"
    /\ io' = [io EXCEPT !.workerRecord =
                WorkerFrameRecord(io.entry.frame, io.entry.index,
                                  io.exercise.id, io.det)]
    /\ pc' = "frame_worker_done"
    /\ UNCHANGED OrchVars

\* the same frame goes through analyzeFramesFallback
AnalyzeInFallback ==
    /\ pc = "frame_worker_done"
    /\ io' = [io EXCEPT !.fallbackRecord =
                FallbackFrameRecord(io.entry, io.exercise, io.det)]
    /\ pc' = "frame_done"
    /\ UNCHANGED OrchVars

FrameNext == AnalyzeInWorker \/ AnalyzeInFallback

FrameSpec == FrameInit /\ [][FrameNext]_vars

(***************************************************************************)
(* C3: for the same frame, exercise and detector output, the record        *)
(* (originalIndex, time, landmarks, errors, analysis, success) of the      *)
(* worker path equals the record of analyzeFramesFallback.                 *)
(***************************************************************************)
C3_WorkerEqualsFallback ==
    pc = "frame_done" =>
        /\ io.workerRecord.originalIndex = io.fallbackRecord.originalIndex
        /\ io.workerRecord.time = io.fallbackRecord.time
        /\ io.workerRecord.landmarks = io.fallbackRecord.landmarks
        /\ io.workerRecord.errors = io.fallbackRecord.errors
        /\ io.workerRecord.analysis = io.fallbackRecord.analysis
        /\ io.workerRecord.success = io.fallbackRecord.success

\* a pose on which two rules fire and one throws went through both paths
C3_Witness ==
    /\ pc = "frame_done"
    /\ io.det.kind = "pose"
    /\ Len(io.workerRecord.errors) = 2
    /\ \E c \in DOMAIN io.det.checks : io.det.checks[c] = "throws"
    /\ io.entry.index > 0

\* the rules of the catalog entry whose predicate returned true on the pose,
\* in catalog order
RulesReturningTrue(exercise, det) ==
    SelectSeq(exercise.validationChecks, LAMBDA check : det.checks[check.id] = "true")

(***************************************************************************)
(* C17: validateForm returns exactly the rules of the exercise whose       *)
(* predicate returned true, in catalog order; a rule whose predicate       *)
(* throws adds nothing and the rules after it are still evaluated.         *)
(***************************************************************************)
C17_EveryRuleEvaluated ==
    (pc \in {"frame_worker_done", "frame_done"} /\ io.det.kind = "pose") =>
        LET fired == RulesReturningTrue(io.exercise, io.det)
        IN  /\ Len(io.workerRecord.errors) = Len(fired)
            /\ \A k \in 1 .. Len(fired) :
                  /\ io.workerRecord.errors[k].id = fired[k].id
                  /\ io.workerRecord.errors[k].severity = fired[k].severity

\* the second squat rule throws; the first and the third return true and
\* are both reported, as are the rules further down
C17_Witness ==
    /\ pc = "frame_worker_done"
    /\ io.det.kind = "pose"
    /\ io.exercise.id = "squat"
    /\ io.det.checks[io.exercise.validationChecks[1].id] = "true"
    /\ io.det.checks[io.exercise.validationChecks[2].id] = "throws"
    /\ \A k \in 3 .. Len(io.exercise.validationChecks) :
          io.det.checks[io.exercise.validationChecks[k].id] = "true"
    /\ Len(io.workerRecord.errors) = Len(io.exercise.validationChecks) - 1
    /\ io.workerRecord.errors[2].id = io.exercise.validationChecks[3].id


(***************************************************************************)
(* Adaptive analysis service (part_004)                                    *)
(***************************************************************************)

\* this.landmarkRequirements: per exercise id its visibility profiles, in the
\* order Object.entries walks them
landmarkRequirements ==
    [squat |-> <<
        [mode |-> "full", required |-> <<11, 12, 23, 24, 25, 26, 27, 28>>,
         checks |-> <<"depth", "knee_valgus", "forward_lean", "heel_lift", "asymmetry">>],
        [mode |-> "partial_front", required |-> <<23, 24, 25, 26, 27, 28>>,
         checks |-> <<"depth", "knee_valgus", "heel_lift">>],
        [mode |-> "side_left", required |-> <<11, 23, 25, 27>>,
         checks |-> <<"depth", "forward_lean">>],
        [mode |-> "side_right", required |-> <<12, 24, 26, 28>>,
         checks |-> <<"depth", "forward_lean">>] >>,
     deadlift |-> <<
        [mode |-> "full", required |-> <<11, 12, 23, 24, 25, 26>>,
         checks |-> <<"back_angle", "hip_position", "knee_position">>],
        [mode |-> "side_left", required |-> <<11, 23, 25>>,
         checks |-> <<"back_angle", "hip_position">>],
        [mode |-> "side_right", required |-> <<12, 24, 26>>,
         checks |-> <<"back_angle", "hip_position">>] >>,
     overhead_press |-> <<
        [mode |-> "full", required |-> <<11, 12, 13, 14, 15, 16, 23, 24>>,
         checks |-> <<"lockout", "back_arch", "bar_path", "asymmetry">>],
        [mode |-> "front_upper", required |-> <<11, 12, 13, 14, 15, 16>>,
         checks |-> <<"lockout", "asymmetry">>],
        [mode |-> "side", required |-> <<11, 13, 15, 23>>,
         checks |-> <<"back_arch", "bar_path">>] >>]

\* the catalog's exercise ids
ExerciseIds == {EXERCISES[i].id : i \in 1 .. Len(EXERCISES)}

\* the landmark indices the catalog and the profiles name
TrackedLandmarks == {11, 12, 13, 14, 15, 16, 23, 24, 25, 26, 27, 28}

\* requiredLandmarks.filter(lm => availableLandmarks.includes(lm)).length
CountAvailable(required, available) ==
    Cardinality({i \in 1 .. Len(required) : required[i] \in available})

\* requiredLandmarks.filter(lm => !availableLandmarks.includes(lm))
MissingOf(required, available) ==
    SelectSeq(required, LAMBDA lm : lm \notin available)

\* a / b > c / d for fractions <<a, b>>, <<c, d>> with positive denominators
FracGreater(x, y) == x[1] * y[2] > y[1] * x[2]
FracGreaterEq(x, y) == x[1] * y[2] >= y[1] * x[2]
FracEq(x, y) == x[1] * y[2] = y[1] * x[2]

\* mutant: a later profile with an equal score replaces the best one
ScoreBeats_OrEqual(score, bestScore) == FracGreaterEq(score, bestScore)

\* if (score > bestScore)
ScoreBeats(score, bestScore) == FracGreater(score, bestScore)

\* the forEach of determineAnalysisMode from profile i on; best is
\* [mode: bestMode or Null, score: bestScore]
RECURSIVE BestProfile(_, _, _, _)
BestProfile(profiles, available, i, best) ==
    IF i > Len(profiles) THEN best
    ELSE LET config == profiles[i]
             score == <<CountAvailable(config.required, available),
                        Len(config.required)>>
         IN  IF ScoreBeats(score, best.score)
               THEN BestProfile(profiles, available, i + 1,
                      [score |-> score,
                       mode |-> [mode |-> config.mode,
                                 confidence |-> score,
                                 missingLandmarks |->
                                    MissingOf(config.required, available),
                                 availableChecks |-> config.checks,
                                 allChecks |-> profiles[1].checks]])
               ELSE BestProfile(profiles, available, i + 1, best)

\* AdaptiveAnalysisService.determineAnalysisMode(exerciseId, availableLandmarks)
determineAnalysisMode(exerciseId, available) ==
    IF exerciseId \notin DOMAIN landmarkRequirements
      THEN [mode |-> "unknown", confidence |-> <<0, 1>>,
            missingLandmarks |-> <<>>, availableChecks |-> <<>>]
    ELSE LET requirements == landmarkRequirements[exerciseId]
             best == BestProfile(requirements, available, 1,
                                 [score |-> <<0, 1>>, mode |-> Null])
         IN  IF best.mode # Null THEN best.mode
             ELSE [mode |-> "insufficient", confidence |-> <<0, 1>>,
                   missingLandmarks |-> requirements[1].required,
                   availableChecks |-> <<>>]

ModeInit ==
    /\ pc = "mode"
    /\ OrchIdle
    /\ \E e \in ExerciseIds, available \in SUBSET TrackedLandmarks :
          io = [exerciseId |-> e, available |-> available, mode |-> NoValue]

DetermineMode ==
    /\ pc = "mode"
    /\ io' = [io EXCEPT !.mode = determineAnalysisMode(io.exerciseId, io.available)]
    /\ pc' = "mode_done"
    /\ UNCHANGED OrchVars

ModeNext == DetermineMode

ModeSpec == ModeInit /\ [][ModeNext]_vars

\* the fraction of profile i's required landmarks that are available
ProfileScore(exerciseId, i, available) ==
    <<CountAvailable(landmarkRequirements[exerciseId][i].required, available),
      Len(landmarkRequirements[exerciseId][i].required)>>

C8_Witness ==
    /\ pc = "mode_done"
    /\ io.exerciseId = "squat"
    /\ io.available = {11, 12, 23, 25, 27}
    /\ io.mode.mode = "side_left"

PoseLandmarkCount == 33

LandmarkIndices == 0 .. (PoseLandmarkCount - 1)

\* landmark.visibility >= visibilityThreshold, or no visibility property at all
CountsAsVisible(landmark) == landmark \in {"visible", "unrated"}

\* mutant: a landmark is available when its consistency is below the threshold
IsConsistentAt_Below(visibleCount, totalCount, consistencyThreshold) ==
    visibleCount * consistencyThreshold[2] <= consistencyThreshold[1] * totalCount

\* consistency >= consistencyThreshold for consistency = visibleCount/totalCount
\* and a threshold <<numerator, denominator>>
IsConsistentAt(visibleCount, totalCount, consistencyThreshold) ==
    visibleCount * consistencyThreshold[2] >= consistencyThreshold[1] * totalCount

\* the default consistencyThreshold = 0.7
DefaultConsistencyThreshold == <<7, 10>>

IsConsistent(visibleCount, totalCount) ==
    IsConsistentAt(visibleCount, totalCount, DefaultConsistencyThreshold)

\* AdaptiveAnalysisService.detectAvailableLandmarks(frames, 0.5,
\* consistencyThreshold): frames without landmarks are skipped; an index is
\* available when it was counted at least once and its share of visible
\* counts reaches the threshold
detectAvailableLandmarksWith(frames, consistencyThreshold) ==
    LET counted == {f \in 1 .. Len(frames) : frames[f].landmarks # Null}
        totalCount(i) == Cardinality(counted)
        visibleCount(i) ==
            Cardinality({f \in counted : CountsAsVisible(frames[f].landmarks[i])})
    IN  {i \in LandmarkIndices :
            /\ totalCount(i) > 0
            /\ IsConsistentAt(visibleCount(i), totalCount(i), consistencyThreshold)}

\* detectAvailableLandmarks(frames) with the default thresholds
detectAvailableLandmarks(frames) ==
    detectAvailableLandmarksWith(frames, DefaultConsistencyThreshold)

\* AdaptiveAnalysisService.generateAdaptiveReport(exerciseId, frames, {}): the
\* fields analyzeVideo reads
generateAdaptiveReport(exerciseId, frames) ==
    IF Len(frames) = 0
      THEN [analysisMode |-> "insufficient", confidence |-> <<0, 1>>,
            available |-> {}]
    ELSE LET available == detectAvailableLandmarks(frames)
             analysisMode == determineAnalysisMode(exerciseId, available)
         IN  [analysisMode |-> analysisMode.mode,
              confidence |-> analysisMode.confidence,
              available |-> available]

(***************************************************************************)
(* Error aggregation and scoring (analyzeVideo, part_003 lines 733-775)    *)
(***************************************************************************)

\* thresholdFrequency by severity, in percent
thresholdFrequency(severity) ==
    IF severity = "critical" THEN 15
    ELSE IF severity = "high" THEN 20
    ELSE IF severity = "medium" THEN 25
    ELSE 30

\* mutant: an error must exceed its threshold to be kept
MeetsThreshold_Strict(count, frameCount, severity) ==
    count * 100 > thresholdFrequency(severity) * frameCount

\* err.frequency >= err.thresholdFrequency, frequency = count / frames.length
MeetsThreshold(count, frameCount, severity) ==
    count * 100 >= thresholdFrequency(severity) * frameCount

\* the positions <<frame, error>> the two nested forEach loops visit
ErrorPositions(frames) ==
    UNION {{<<f, k>> : k \in 1 .. Len(frames[f].errors)} : f \in 1 .. Len(frames)}

\* position p is visited before position q
VisitedBefore(p, q) == p[1] < q[1] \/ (p[1] = q[1] /\ p[2] < q[2])

\* the values of errorCounts in insertion order: errorCounts[error.id] is
\* created from the first error seen with that id and counted up at every
\* occurrence
CountErrors(frames) ==
    LET positions == ErrorPositions(frames)
        idAt(p) == frames[p[1]].errors[p[2]].id
        firsts == {p \in positions :
                     \A q \in positions : idAt(q) = idAt(p) => ~VisitedBefore(q, p)}
        rank(p) == Cardinality({q \in firsts : VisitedBefore(q, p)}) + 1
    IN  [r \in 1 .. Cardinality(firsts) |->
            LET p == CHOOSE q \in firsts : rank(q) = r
                error == frames[p[1]].errors[p[2]]
            IN  [id |-> error.id, severity |-> error.severity,
                 count |-> Cardinality({q \in positions : idAt(q) = error.id})]]

\* .sort by severityOrder descending; Array.prototype.sort is stable
SortBySeverity(errors) ==
    SelectSeq(errors, LAMBDA e : e.severity = "critical")
    \o SelectSeq(errors, LAMBDA e : e.severity = "high")
    \o SelectSeq(errors, LAMBDA e : e.severity = "medium")
    \o SelectSeq(errors, LAMBDA e : e.severity = "low")
    \o SelectSeq(errors, LAMBDA e :
          e.severity \notin {"critical", "high", "medium", "low"})

\* the ERROR AGGREGATION block: significantErrors
AggregateErrors(frames) ==
    IF Len(frames) = 0 THEN <<>>
    ELSE SortBySeverity(
            SelectSeq(CountErrors(frames),
                      LAMBDA e : MeetsThreshold(e.count, Len(frames), e.severity)))

\* mutant: the clamp to 0..100 is missing
BaseScore_Unclamped(frameCount, errorCount) ==
    IF frameCount > 0 THEN 100 - errorCount * 15 ELSE 0

\* baseScore = Math.max(0, Math.min(100, 100 - significantErrors.length * 15))
\* when a frame was analyzed, else 0
BaseScore(frameCount, errorCount) ==
    IF frameCount > 0 THEN Max(0, Min(100, 100 - errorCount * 15)) ELSE 0

\* mutant: the completeness multiplier is not applied
FinalScore_NoMultiplier(baseScore, confidence) == baseScore

\* score = Math.round(baseScore * completenessMultiplier)
FinalScore(baseScore, confidence) ==
    RoundDiv(baseScore * confidence[1], confidence[2])

\* largest frame count of the aggregation inputs
MaxScoreFrames == 20

\* largest frame count of the inputs in which some landmarks are hidden
MaxPartialViewFrames == 1

ChecksOf(exerciseId) == getExerciseById(exerciseId).validationChecks

\* the landmarks of the exercise's first profile (none without profiles)
FullRequired(exerciseId) ==
    IF exerciseId \in DOMAIN landmarkRequirements
      THEN {landmarkRequirements[exerciseId][1].required[i] :
              i \in 1 .. Len(landmarkRequirements[exerciseId][1].required)}
      ELSE {}

\* The analyzed videos explored are described by io.input: frameCount frames,
\* all with landmarks, the same set `visible` of landmarks visible in every
\* frame, and the first `firing` rules of the exercise firing in each of the
\* first `hits` frames.

\* validFrameResults for an input: every frame has success: true
FramesOf(input) ==
    [f \in 1 .. input.frameCount |->
        [frameIndex |-> f - 1,
         landmarks |-> [i \in LandmarkIndices |->
                          IF i \in input.visible THEN "visible" ELSE "hidden"],
         errors |-> IF f <= input.hits
                      THEN [k \in 1 .. input.firing |->
                              ErrorOf(ChecksOf(input.exerciseId)[k])]
                      ELSE <<>>]]

ScoreInit ==
    /\ pc = "score"
    /\ OrchIdle
    /\ \E e \in ExerciseIds, n \in 0 .. MaxScoreFrames :
       \E c \in 0 .. n, j \in 0 .. Len(ChecksOf(e)) :
       \E v \in {TrackedLandmarks} \cup
                (IF n \in 1 .. MaxPartialViewFrames
                   THEN SUBSET FullRequired(e) ELSE {}) :
          io = [input |-> [exerciseId |-> e, frameCount |-> n, visible |-> v,
                           hits |-> c, firing |-> j],
                adaptiveReport |-> NoValue, significantErrors |-> NoValue,
                baseScore |-> NoValue, score |-> NoValue]

\* the synchronous stages after the join: adaptive report, error aggregation,
\* scoring
AnalyzeResults ==
    /\ pc = "score"
    /\ LET validFrameResults == FramesOf(io.input)
           adaptiveReport ==
               generateAdaptiveReport(io.input.exerciseId, validFrameResults)
           significantErrors == AggregateErrors(validFrameResults)
           baseScore == BaseScore(Len(validFrameResults), Len(significantErrors))
       IN  io' = [io EXCEPT
                    !.adaptiveReport = adaptiveReport,
                    !.significantErrors = significantErrors,
                    !.baseScore = baseScore,
                    !.score = FinalScore(baseScore, adaptiveReport.confidence)]
    /\ pc' = "score_done"
    /\ UNCHANGED OrchVars

ScoreNext == AnalyzeResults

ScoreSpec == ScoreInit /\ [][ScoreNext]_vars

\* occurrences of the k-th rule of the exercise among the input's frames
Occurrences(input, k) == IF k <= input.firing THEN input.hits ELSE 0

IsKept(id) ==
    \E i \in 1 .. Len(io.significantErrors) : io.significantErrors[i].id = id

(***************************************************************************)
(* C5: an error that occurs in the analyzed frames is kept as significant  *)
(* exactly when count * 100 >= threshold% * analyzedFrameCount, with       *)
(* threshold 15 (critical), 20 (high), 25 (medium), 30 (low): a frequency  *)
(* equal to the threshold is kept, one occurrence fewer is dropped.        *)
(***************************************************************************)
C5_KeptIffAtThreshold ==
    pc = "score_done" =>
        \A k \in 1 .. Len(ChecksOf(io.input.exerciseId)) :
            LET check == ChecksOf(io.input.exerciseId)[k]
                count == Occurrences(io.input, k)
                pct == CASE check.severity = "critical" -> 15
                         [] check.severity = "high" -> 20
                         [] check.severity = "medium" -> 25
                         [] check.severity = "low" -> 30
            IN  IsKept(check.id) <=>
                    (count >= 1 /\ count * 100 >= pct * io.input.frameCount)

\* 20 frames, every squat rule fires in 3 of them: the critical rule sits
\* exactly on its 15% threshold and is kept, the others are dropped
C5_Witness ==
    /\ pc = "score_done"
    /\ io.input.exerciseId = "squat"
    /\ io.input.frameCount = 20 /\ io.input.hits = 3 /\ io.input.firing = 8
    /\ IsKept("back_rounding_squat")
    /\ ~IsKept("knee_valgus")
    /\ Len(io.significantErrors) = 1

(***************************************************************************)
(* C6: baseScore = clamp(100 - 15 * number of significant errors, 0, 100), *)
(* or 0 when no frame was analyzed; score = round(baseScore * confidence); *)
(* hence 0 <= score <= baseScore <= 100.                                   *)
(***************************************************************************)
C6_ScoreBounds ==
    pc = "score_done" =>
        LET k == Len(io.significantErrors)
            conf == io.adaptiveReport.confidence
        IN  /\ io.baseScore = (IF io.input.frameCount = 0 \/ 15 * k >= 100
                                 THEN 0 ELSE 100 - 15 * k)
            /\ 2 * conf[2] * io.score <= 2 * io.baseScore * conf[1] + conf[2]
            /\ 2 * conf[2] * io.score > 2 * io.baseScore * conf[1] - conf[2]
            /\ 0 <= io.score
            /\ io.score <= io.baseScore
            /\ io.baseScore <= 100

\* seven significant errors: 100 - 105 is clamped to 0
C6_Witness ==
    /\ pc = "score_done"
    /\ Len(io.significantErrors) = 7
    /\ io.input.frameCount > 0
    /\ io.baseScore = 0 /\ io.score = 0

VisibleIn(set) == Cardinality(io.input.visible \cap set)

\* a squat video in which exactly 4 of the 8 landmarks of 'full' are visible
FourOfEightSquat ==
    /\ pc = "score_done"
    /\ io.input.exerciseId = "squat"
    /\ io.input.frameCount >= 1
    /\ io.input.visible \subseteq FullRequired("squat")
    /\ Cardinality(io.input.visible) = 4

(***************************************************************************)
(* C7 as claimed: for a squat with exactly 4 of the 8 landmarks of 'full'  *)
(* visible in every frame, whichever 4, the mode confidence is 0.5 and the *)
(* score is round(baseScore * 0.5).                                        *)
(***************************************************************************)
C7_Original ==
    FourOfEightSquat =>
        /\ FracEq(io.adaptiveReport.confidence, <<1, 2>>)
        /\ io.score = RoundDiv(io.baseScore, 2)

(***************************************************************************)
(* C7 amended: for a squat with exactly 4 of the 8 landmarks of 'full'     *)
(* visible in every frame the confidence is at least 0.5; it is 0.5, and   *)
(* the score round(baseScore * 0.5), exactly when the four are two left    *)
(* and two right landmarks, at least one of them a shoulder; otherwise a   *)
(* partial profile scores higher (2/3, 3/4 or 1) and scales the score.     *)
(***************************************************************************)
C7_HalfConfidenceWhenBalanced ==
    FourOfEightSquat =>
        LET conf == io.adaptiveReport.confidence
            balanced == /\ VisibleIn({11, 23, 25, 27}) = 2
                        /\ VisibleIn({12, 24, 26, 28}) = 2
                        /\ VisibleIn({11, 12}) >= 1
        IN  /\ FracGreaterEq(conf, <<1, 2>>)
            /\ balanced <=> FracEq(conf, <<1, 2>>)
            /\ balanced => /\ io.adaptiveReport.analysisMode = "full"
                           /\ io.score = RoundDiv(io.baseScore, 2)
            /\ ~balanced => FracEq(conf, <<2, 3>>) \/ FracEq(conf, <<3, 4>>)
                            \/ FracEq(conf, <<1, 1>>)

\* both shoulders and both hips visible, one significant error: baseScore 85,
\* confidence 1/2, score round(42.5) = 43
C7_Witness ==
    /\ FourOfEightSquat
    /\ io.input.visible = {11, 12, 23, 24}
    /\ io.baseScore = 85
    /\ io.score = 43


(***************************************************************************)
(* Rep counting (RepCountingService, repProgression.js lines 372-705)      *)
(*                                                                         *)
(* Metric values are integers in units of 1/1000 of the normalized image   *)
(* height; smoothed values carry the factor SmoothScale so that the moving *)
(* average over 3, 4 or 5 samples is exact.                                *)
(***************************************************************************)

\* this.repThresholds, thresholds in 1/1000
repThresholds ==
    [squat |-> [metric |-> "hipHeight", fallbackMetric |-> "kneeAngle",
                threshold |-> 80, direction |-> "down"],
     deadlift |-> [metric |-> "hipHeight", fallbackMetric |-> "kneeAngle",
                   threshold |-> 100, direction |-> "down"],
     overhead_press |-> [metric |-> "wristHeight", fallbackMetric |-> "shoulderHeight",
                         threshold |-> 120, direction |-> "up"],
     bench_press |-> [metric |-> "wristHeight", fallbackMetric |-> "elbowHeight",
                      threshold |-> 100, direction |-> "down"],
     pull_up |-> [metric |-> "shoulderHeight", fallbackMetric |-> "chinHeight",
                  threshold |-> 150, direction |-> "up"]]

\* the moving average divides by 3, 4 or 5 samples
SmoothScale == 3 * 4 * 5

\* a metric value is null, written <<>>, or a number n, written <<n>>
NullValue == <<>>

NotNull(value) == value # NullValue

\* value !== null && value !== 0
NotNullOrZero(value) == value # NullValue /\ value # <<0>>

\* extractMetric(frames, metricType): frame.metrics[m] is the value the switch
\* computes for metric m from the frame's landmarks, Null when they are
\* missing or not visible enough
extractMetric(frames, metricType) ==
    [i \in 1 .. Len(frames) |->
        [index |-> i - 1,
         value |-> IF metricType \in DOMAIN frames[i].metrics
                     THEN frames[i].metrics[metricType] ELSE NullValue]]

RECURSIVE SumRange(_, _, _)
SumRange(data, from, to) ==
    IF from > to THEN 0 ELSE data[from] + SumRange(data, from + 1, to)

\* smoothData(data, windowSize): sum / count over the window clipped to the
\* data, times SmoothScale
smoothData(data, windowSize) ==
    LET halfWindow == windowSize \div 2
    IN  [i \in 1 .. Len(data) |->
            LET from == Max(1, i - halfWindow)
                to == Min(Len(data), i + halfWindow)
            IN  (SumRange(data, from, to) * SmoothScale) \div (to - from + 1)]

\* [...peaks, ...valleys].sort((a, b) => a.index - b.index), a stable sort
RECURSIVE SortByIndex(_)
SortByIndex(points) ==
    IF Len(points) = 0 THEN <<>>
    ELSE LET least == CHOOSE i \in 1 .. Len(points) :
                         /\ \A j \in 1 .. Len(points) : points[i].index <= points[j].index
                         /\ \A j \in 1 .. (i - 1) : points[j].index # points[i].index
         IN  <<points[least]>>
             \o SortByIndex([j \in 1 .. (Len(points) - 1) |->
                               IF j < least THEN points[j] ELSE points[j + 1]])

Abs(x) == IF x < 0 THEN -x ELSE x

\* peaks.some(pk => pk.index === p.index)
HasIndex(points, index) == \E i \in 1 .. Len(points) : points[i].index = index

\* mutant: a point is compared with the point before it, kept or not
RECURSIVE KeepSignificant_ComparePrevious(_, _, _, _)
KeepSignificant_ComparePrevious(allPoints, i, filtered, minAmplitude) ==
    IF i > Len(allPoints) THEN filtered
    ELSE IF i = 1
           \/ Abs(allPoints[i].value - allPoints[i - 1].value) >= minAmplitude
      THEN KeepSignificant_ComparePrevious(allPoints, i + 1,
                                           Append(filtered, allPoints[i]), minAmplitude)
      ELSE KeepSignificant_ComparePrevious(allPoints, i + 1, filtered, minAmplitude)

\* the loop of filterSignificantPoints: the first point is kept, a later one
\* when it differs from the last kept point by at least minAmplitude
RECURSIVE KeepSignificant(_, _, _, _)
KeepSignificant(allPoints, i, filtered, minAmplitude) ==
    IF i > Len(allPoints) THEN filtered
    ELSE IF Len(filtered) = 0
           \/ Abs(allPoints[i].value - filtered[Len(filtered)].value) >= minAmplitude
      THEN KeepSignificant(allPoints, i + 1, Append(filtered, allPoints[i]), minAmplitude)
      ELSE KeepSignificant(allPoints, i + 1, filtered, minAmplitude)

\* filterSignificantPoints(peaks, valleys, minAmplitude)
filterSignificantPoints(peaks, valleys, minAmplitude) ==
    LET filtered == KeepSignificant(SortByIndex(peaks \o valleys), 1, <<>>, minAmplitude)
    IN  [peaks |-> SelectSeq(filtered, LAMBDA p : HasIndex(peaks, p.index)),
         valleys |-> SelectSeq(filtered, LAMBDA p : HasIndex(valleys, p.index))]

\* isLocalMax / isLocalMin at position i of the smoothed values
IsLocalMax(smoothed, i) ==
    /\ smoothed[i] > smoothed[i - 1] /\ smoothed[i] > smoothed[i + 1]
    /\ smoothed[i] >= smoothed[i - 2] /\ smoothed[i] >= smoothed[i + 2]

IsLocalMin(smoothed, i) ==
    /\ smoothed[i] < smoothed[i - 1] /\ smoothed[i] < smoothed[i + 1]
    /\ smoothed[i] <= smoothed[i - 2] /\ smoothed[i] <= smoothed[i + 2]

\* the extrema of one kind the detection loop pushes: it visits the positions
\* i = 2 .. length - 3 (zero-based) in order
CollectExtrema(validData, smoothed, kind) ==
    LET visited == [j \in 1 .. (Len(smoothed) - 4) |-> j + 2]
        found == SelectSeq(visited, LAMBDA i :
                     \/ (kind = "peak" /\ IsLocalMax(smoothed, i))
                     \/ (kind = "valley" /\ IsLocalMin(smoothed, i)))
    IN  [j \in 1 .. Len(found) |->
            [index |-> validData[found[j]].index, value |-> smoothed[found[j]]]]

\* findPeaksAndValleys(data, minAmplitude), minAmplitude times SmoothScale
findPeaksAndValleys(data, minAmplitude) ==
    LET validData == SelectSeq(data, LAMBDA d : NotNull(d.value))
    IN  IF Len(validData) < 5 THEN [peaks |-> <<>>, valleys |-> <<>>]
        ELSE LET smoothed == smoothData([i \in 1 .. Len(validData) |-> validData[i].value[1]], 5)
             IN  filterSignificantPoints(
                    CollectExtrema(validData, smoothed, "peak"),
                    CollectExtrema(validData, smoothed, "valley"),
                    minAmplitude)


\* mutant: a range runs from the third point back to the first
RepRange_Backwards(direction, p1, p2, p3) ==
    IF direction = "down"
      THEN [startIndex |-> p3.index, bottomIndex |-> p2.index, endIndex |-> p1.index,
            rangeOfMotion |-> Abs(p1.value - p2.value)]
      ELSE [startIndex |-> p3.index, topIndex |-> p2.index, endIndex |-> p1.index,
            rangeOfMotion |-> Abs(p2.value - p1.value)]

\* one range of identifyReps: the turn point is bottomIndex for 'down' and
\* topIndex for 'up'
RepRange(direction, p1, p2, p3) ==
    IF direction = "down"
      THEN [startIndex |-> p1.index, bottomIndex |-> p2.index, endIndex |-> p3.index,
            rangeOfMotion |-> Abs(p1.value - p2.value)]
      ELSE [startIndex |-> p1.index, topIndex |-> p2.index, endIndex |-> p3.index,
            rangeOfMotion |-> Abs(p2.value - p1.value)]

\* mutant: valley-peak-valley is matched whatever the direction
IsRepTriplet_AnyDirection(direction, peaks, valleys, p1, p2, p3) ==
    /\ HasIndex(valleys, p1.index)
    /\ HasIndex(peaks, p2.index)
    /\ HasIndex(valleys, p3.index)

\* the test on allPoints[i], [i+1], [i+2]: valley-peak-valley for 'down',
\* peak-valley-peak otherwise
IsRepTriplet(direction, peaks, valleys, p1, p2, p3) ==
    IF direction = "down"
      THEN /\ HasIndex(valleys, p1.index)
           /\ HasIndex(peaks, p2.index)
           /\ HasIndex(valleys, p3.index)
      ELSE /\ HasIndex(peaks, p1.index)
           /\ HasIndex(valleys, p2.index)
           /\ HasIndex(peaks, p3.index)

\* the ranges pushed by the loop over i = 0 .. allPoints.length - 3
MatchTriplets(allPoints, direction, peaks, valleys) ==
    LET starts == SelectSeq([i \in 1 .. (Len(allPoints) - 2) |-> i], LAMBDA i :
                      IsRepTriplet(direction, peaks, valleys,
                                   allPoints[i], allPoints[i + 1], allPoints[i + 2]))
    IN  [j \in 1 .. Len(starts) |->
            RepRange(direction, allPoints[starts[j]], allPoints[starts[j] + 1],
                     allPoints[starts[j] + 2])]

\* identifyReps(peaks, valleys, direction, frames)
identifyReps(peaks, valleys, direction) ==
    LET allPoints == SortByIndex(peaks \o valleys)
    IN  IF Len(allPoints) < 3 THEN <<>>
        ELSE MatchTriplets(allPoints, direction, peaks, valleys)

\* Math.max(...values) - Math.min(...values) over the values that are neither
\* null nor 0
MetricRange(metricData) ==
    LET values == {metricData[i].value[1] :
                      i \in {j \in 1 .. Len(metricData) : NotNullOrZero(metricData[j].value)}}
    IN  (CHOOSE v \in values : \A w \in values : w <= v)
        - (CHOOSE v \in values : \A w \in values : v <= w)

\* Math.max(config.threshold, range * 0.15), times SmoothScale; without any
\* value the range is -Infinity and the configured threshold remains
adaptiveThreshold(config, metricData) ==
    IF \A i \in 1 .. Len(metricData) : ~NotNullOrZero(metricData[i].value)
      THEN config.threshold * SmoothScale
      ELSE Max(config.threshold * SmoothScale,
               (MetricRange(metricData) * 15 * SmoothScale) \div 100)

\* countReps(frames, exerciseId)
countReps(frames, exerciseId) ==
    IF Len(frames) < 5 \/ exerciseId \notin DOMAIN repThresholds
      THEN [count |-> 0, repRanges |-> <<>>, metricData |-> <<>>]
    ELSE LET config == repThresholds[exerciseId]
             primary == extractMetric(frames, config.metric)
             validDataPoints ==
                 SelectSeq(primary, LAMBDA d : NotNullOrZero(d.value))
             metricData ==
                 IF 2 * Len(validDataPoints) < Len(frames)
                   THEN extractMetric(frames, config.fallbackMetric)
                   ELSE primary
             minAmplitude == adaptiveThreshold(config, metricData)
             extrema == findPeaksAndValleys(metricData, minAmplitude)
             repRanges == identifyReps(extrema.peaks, extrema.valleys, config.direction)
         IN  [count |-> Len(repRanges), repRanges |-> repRanges,
              peakFrames |-> extrema.peaks, valleyFrames |-> extrema.valleys,
              metricData |-> metricData]


\* most movement cycles in a recorded series
MaxCycles == 3

\* most frames at rest before the first and after the last cycle
MaxRestFrames == 2

\* most frames from rest to the turning point, for the linear profile
MaxHalfPeriod == 5

\* 1000 * (1 - cos(pi * d / 15)) / 2 for d = 0 .. 15: half a period of a
\* sinusoid sampled at 30 frames per cycle
SineProfile ==
    <<0, 11, 43, 95, 165, 250, 345, 448, 552, 655, 750, 835, 905, 957, 989, 1000>>

\* the half periods explored for a profile
HalfPeriods(profile) ==
    IF profile = "sine" THEN {Len(SineProfile) - 1}
    ELSE 3 .. MaxHalfPeriod

\* peak-to-peak amplitudes explored, in 1/1000: below every configured
\* threshold, between them, above all.  They are chosen so that no comparison
\* of the pipeline falls on an exact tie, where the rounding of the double
\* arithmetic would decide: for these series exact and double arithmetic
\* find the same extrema.
Amplitudes(profile) ==
    IF profile = "sine" THEN {50, 110, 250} ELSE {50, 110, 260}

\* distance from rest, in 1/1000 of the amplitude, at step k of a series
Excursion(profile, halfPeriod, k) ==
    LET phase == k % (2 * halfPeriod)
        d == IF phase <= halfPeriod THEN phase ELSE 2 * halfPeriod - phase
    IN  IF profile = "sine" THEN SineProfile[d + 1] ELSE (1000 * d) \div halfPeriod

\* the metric value at rest (offset 0) and away from it; a series that starts
\* low rests at y = 0.400 and turns at 0.400 + amplitude, one that starts high
\* the other way round
MetricAt(input, offset) ==
    IF input.startsLow THEN 400 + offset ELSE 400 + input.amplitude - offset

\* the recorded series: lead frames at rest, `cycles` cycles of 2 * halfPeriod
\* frames each, tail frames at rest
SeriesOf(input) ==
    LET moving == input.cycles * 2 * input.halfPeriod
    IN  [i \in 1 .. (input.lead + moving + input.tail) |->
            IF i <= input.lead \/ i > input.lead + moving
              THEN MetricAt(input, 0)
              ELSE MetricAt(input,
                     (input.amplitude
                        * Excursion(input.profile, input.halfPeriod, i - 1 - input.lead))
                     \div 1000)]

\* validFrameResults of the recording: the series is carried by the primary
\* metric of the exercise, or by the fallback metric when the landmarks of the
\* primary metric are not visible
RepFramesOf(input) ==
    LET config == repThresholds[input.exerciseId]
        series == SeriesOf(input)
    IN  [i \in 1 .. Len(series) |->
            [metrics |->
                (config.metric :> (IF input.primaryVisible THEN <<series[i]>> ELSE NullValue))
                @@ (config.fallbackMetric :> <<series[i]>>)]]

RepInit ==
    /\ pc = "reps"
    /\ OrchIdle
    /\ \E e \in ExerciseIds, cycles \in 0 .. MaxCycles,
          profile \in {"linear", "sine"},
          lead \in 0 .. MaxRestFrames, tail \in 0 .. MaxRestFrames,
          startsLow \in BOOLEAN, primaryVisible \in BOOLEAN :
       \E halfPeriod \in HalfPeriods(profile), amplitude \in Amplitudes(profile) :
          io = [input |-> [exerciseId |-> e, cycles |-> cycles, profile |-> profile,
                           halfPeriod |-> halfPeriod, amplitude |-> amplitude,
                           lead |-> lead, tail |-> tail, startsLow |-> startsLow,
                           primaryVisible |-> primaryVisible],
                repAnalysis |-> NoValue, repFrames |-> NoValue]

\* REP COUNTING in analyzeVideo: repCountingService.countReps(validFrameResults,
\* exercise.id)
CountReps ==
    /\ pc = "reps"
    /\ io' = [io EXCEPT !.repAnalysis = countReps(RepFramesOf(io.input), io.input.exerciseId)]
    /\ pc' = "reps_done"
    /\ UNCHANGED OrchVars

\* a JavaScript value that is a number, undefined or NaN
JsNumber(n) == [kind |-> "number", value |-> n]
JsUndefined == [kind |-> "undefined"]
JsNaN == [kind |-> "NaN"]

\* object[name]: undefined for a property the object does not have
PropertyOf(object, name) ==
    IF name \in DOMAIN object THEN JsNumber(object[name]) ELSE JsUndefined

\* value + 1
JsPlusOne(value) ==
    IF value.kind = "number" THEN JsNumber(value.value + 1) ELSE JsNaN

\* the relative index Array.prototype.slice makes of an argument: NaN and
\* undefined convert to 0, except that an undefined end means the length
SliceBound(value, len, isEnd) ==
    IF value.kind = "number"
      THEN (IF value.value < 0 THEN Max(len + value.value, 0) ELSE Min(value.value, len))
    ELSE IF value.kind = "undefined" /\ isEnd THEN len
    ELSE 0

\* array.slice(start, end)
ArraySlice(array, start, end) ==
    LET from == SliceBound(start, Len(array), FALSE)
        to == SliceBound(end, Len(array), TRUE)
    IN  [k \in 1 .. Max(to - from, 0) |-> array[from + k]]

\* mutant: the slice bounds are read from the fields identifyReps writes
RepFrameBounds_Index(repRange) ==
    [start |-> PropertyOf(repRange, "startIndex"),
     end |-> JsPlusOne(PropertyOf(repRange, "endIndex"))]

\* the slice bounds analyzeVideo reads: repRange.startFrame and
\* repRange.endFrame + 1
RepFrameBounds(repRange) ==
    [start |-> PropertyOf(repRange, "startFrame"),
     end |-> JsPlusOne(PropertyOf(repRange, "endFrame"))]

\* REP PROGRESSION ANALYSIS in analyzeVideo: per range the frames handed to
\* analyzeRepProgression, each frame named by its position in
\* validFrameResults
SliceRepFrames ==
    /\ pc = "reps_done"
    /\ LET validFrameResults == [i \in 1 .. Len(RepFramesOf(io.input)) |-> i - 1]
           repRanges == io.repAnalysis.repRanges
       IN  io' = [io EXCEPT !.repFrames =
                    [k \in 1 .. Len(repRanges) |->
                        ArraySlice(validFrameResults,
                                   RepFrameBounds(repRanges[k]).start,
                                   RepFrameBounds(repRanges[k]).end)]]
    /\ pc' = "progression_done"
    /\ UNCHANGED OrchVars

RepNext == CountReps \/ SliceRepFrames

RepSpec == RepInit /\ [][RepNext]_vars

\* a series of exactly three full cycles standing - bottom - standing with an
\* amplitude above the adaptive threshold, counted for a 'down' exercise
ThreeFullCycles ==
    /\ pc = "reps_done"
    /\ repThresholds[io.input.exerciseId].direction = "down"
    /\ io.input.cycles = 3
    /\ io.input.startsLow
    /\ io.input.amplitude * 100 >
          Max(repThresholds[io.input.exerciseId].threshold * 100, io.input.amplitude * 15)

(***************************************************************************)
(* C4: a metric series of exactly 3 full cycles (standing, bottom,         *)
(* standing) with amplitude above the adaptive threshold, counted for a    *)
(* direction 'down' exercise, yields count = 3 with exactly 3 ranges.      *)
(***************************************************************************)
C4_ThreeCyclesThreeReps ==
    ThreeFullCycles =>
        /\ io.repAnalysis.count = 3
        /\ Len(io.repAnalysis.repRanges) = 3

\* largest frame index of an extremum handed to identifyReps
MaxExtremumIndex == 6

\* the extrema of one kind among the frames 0 .. MaxExtremumIndex, in time
\* order as findPeaksAndValleys lists them; peaks lie at y = 0.650 and valleys
\* at y = 0.400
PointsOfKind(kinds, kind) ==
    LET frames == SelectSeq([i \in 1 .. (MaxExtremumIndex + 1) |-> i - 1],
                            LAMBDA f : kinds[f] = kind)
    IN  [j \in 1 .. Len(frames) |->
            [index |-> frames[j],
             value |-> (IF kind = "peak" THEN 650 ELSE 400) * SmoothScale]]

\* any list of filtered extrema: every frame is a peak, a valley or neither
TripletInit ==
    /\ pc = "triplets"
    /\ OrchIdle
    /\ \E e \in ExerciseIds :
       \E kinds \in [0 .. MaxExtremumIndex -> {"none", "peak", "valley"}] :
          io = [input |-> [exerciseId |-> e, kinds |-> kinds],
                repAnalysis |-> NoValue]

\* the last step of countReps: identifyReps(peaks, valleys, config.direction,
\* frames) on the filtered extrema
IdentifyReps ==
    /\ pc = "triplets"
    /\ LET peaks == PointsOfKind(io.input.kinds, "peak")
           valleys == PointsOfKind(io.input.kinds, "valley")
           repRanges == identifyReps(peaks, valleys,
                                     repThresholds[io.input.exerciseId].direction)
       IN  io' = [io EXCEPT !.repAnalysis =
                    [count |-> Len(repRanges), repRanges |-> repRanges,
                     peakFrames |-> peaks, valleyFrames |-> valleys]]
    /\ pc' = "triplets_done"
    /\ UNCHANGED OrchVars

TripletNext == IdentifyReps

TripletSpec == TripletInit /\ [][TripletNext]_vars

\* a countReps result is at hand
RepsCounted == pc \in {"reps_done", "triplets_done"}

\* the turning point of an emitted range
TurnIndex(range) ==
    IF "bottomIndex" \in DOMAIN range THEN range.bottomIndex ELSE range.topIndex

\* the filtered extrema of a countReps result in time order, each with its kind
ExtremaOf(repAnalysis) ==
    IF "peakFrames" \notin DOMAIN repAnalysis THEN <<>>
    ELSE LET all == SortByIndex(repAnalysis.peakFrames \o repAnalysis.valleyFrames)
         IN  [i \in 1 .. Len(all) |->
                [index |-> all[i].index,
                 kind |-> IF HasIndex(repAnalysis.peakFrames, all[i].index)
                            THEN "peak" ELSE "valley"]]

(***************************************************************************)
(* C14: in every countReps output each range has start index < turn index  *)
(* < end index, the ranges are listed in increasing frame order, and each  *)
(* later range starts at or after the end index of the range before it.    *)
(***************************************************************************)
C14_RangesOrderedDisjoint ==
    RepsCounted =>
        LET ranges == io.repAnalysis.repRanges
        IN  /\ \A k \in 1 .. Len(ranges) :
                  /\ ranges[k].startIndex < TurnIndex(ranges[k])
                  /\ TurnIndex(ranges[k]) < ranges[k].endIndex
            /\ \A k \in 1 .. (Len(ranges) - 1) :
                  /\ ranges[k].startIndex < ranges[k + 1].startIndex
                  /\ ranges[k + 1].startIndex >= ranges[k].endIndex

\* two ranges, the second starting on the frame the first ends on, found in
\* a list in which two valleys follow each other
C14_Witness ==
    /\ RepsCounted
    /\ Len(io.repAnalysis.repRanges) = 2
    /\ io.repAnalysis.repRanges[2].startIndex = io.repAnalysis.repRanges[1].endIndex
    /\ \E i \in 1 .. (Len(ExtremaOf(io.repAnalysis)) - 1) :
          /\ ExtremaOf(io.repAnalysis)[i].kind = "valley"
          /\ ExtremaOf(io.repAnalysis)[i + 1].kind = "valley"

(***************************************************************************)
(* C15: every emitted range is made of three extrema that are consecutive  *)
(* in the filtered extrema list: valley, peak, valley for a direction      *)
(* 'down' exercise and peak, valley, peak for a direction 'up' exercise;   *)
(* no range comes from any other sequence of extremum kinds.               *)
(***************************************************************************)
C15_RangesAreTriplets ==
    RepsCounted =>
        LET ranges == io.repAnalysis.repRanges
            extrema == ExtremaOf(io.repAnalysis)
            direction == repThresholds[io.input.exerciseId].direction
            kinds == IF direction = "down" THEN <<"valley", "peak", "valley">>
                     ELSE <<"peak", "valley", "peak">>
        IN  \A k \in 1 .. Len(ranges) :
                \E i \in 1 .. (Len(extrema) - 2) :
                    /\ extrema[i].index = ranges[k].startIndex
                    /\ extrema[i + 1].index = TurnIndex(ranges[k])
                    /\ extrema[i + 2].index = ranges[k].endIndex
                    /\ <<extrema[i].kind, extrema[i + 1].kind, extrema[i + 2].kind>> = kinds

\* a direction 'up' exercise with a range peak - valley - peak
C15_Witness ==
    /\ RepsCounted
    /\ repThresholds[io.input.exerciseId].direction = "up"
    /\ Len(io.repAnalysis.repRanges) >= 1
    /\ "topIndex" \in DOMAIN io.repAnalysis.repRanges[1]
    /\ Len(ExtremaOf(io.repAnalysis)) >= 4

(***************************************************************************)
(* Landmark availability under two consistency thresholds                  *)
(* (detectAvailableLandmarks, part_004 lines 108-155)                      *)
(***************************************************************************)

MaxAvailFrames == 3

\* the visibility a frame gives to the landmarks: one status for the even
\* indices and one for the odd indices
LandmarkStatuses == {"visible", "hidden", "unrated"}

FramePatterns == [0 .. 1 -> LandmarkStatuses]

\* a frame result without pose (landmarks: null), or one with 33 landmarks
AvailFrame(pattern) ==
    IF pattern = Null
      THEN [landmarks |-> Null]
      ELSE [landmarks |-> [i \in LandmarkIndices |-> pattern[i % 2]]]

\* consistencyThreshold values, in tenths
ThresholdTenths == {0, 3, 5, 7, 10}

AvailInit ==
    /\ pc = "avail"
    /\ OrchIdle
    /\ \E n \in 0 .. MaxAvailFrames :
       \E patterns \in [1 .. n -> FramePatterns \cup {Null}] :
       \E lower \in ThresholdTenths, higher \in ThresholdTenths :
          /\ lower <= higher
          /\ io = [input |-> [frames |-> [f \in 1 .. n |-> AvailFrame(patterns[f])],
                              lower |-> <<lower, 10>>, higher |-> <<higher, 10>>],
                   atLower |-> NoValue, atHigher |-> NoValue]

\* the same frames analysed with the lower and with the higher threshold
DetectAvailable ==
    /\ pc = "avail"
    /\ io' = [io EXCEPT
                !.atLower = detectAvailableLandmarksWith(io.input.frames,
                                                         io.input.lower),
                !.atHigher = detectAvailableLandmarksWith(io.input.frames,
                                                          io.input.higher)]
    /\ pc' = "avail_done"
    /\ UNCHANGED OrchVars

AvailNext == DetectAvailable

AvailSpec == AvailInit /\ [][AvailNext]_vars

(***************************************************************************)
(* C16: for the same frames, the landmarks available at a higher           *)
(* consistencyThreshold are a subset of those available at a lower one.    *)
(***************************************************************************)
C16_AvailableShrinksWithThreshold ==
    pc = "avail_done" => io.atHigher \subseteq io.atLower

\* three frames, one of them without pose: the even landmarks are visible in
\* both counted frames, the odd ones in one of them; at 0.5 all 33 are
\* available, at 0.7 only the 17 even ones
C16_Witness ==
    /\ pc = "avail_done"
    /\ Len(io.input.frames) = 3
    /\ \E f \in 1 .. 3 : io.input.frames[f].landmarks = Null
    /\ io.input.lower = <<5, 10>> /\ io.input.higher = <<7, 10>>
    /\ io.atLower = LandmarkIndices
    /\ io.atHigher = {i \in LandmarkIndices : i % 2 = 0}

(***************************************************************************)
(* The report of analyzeVideo for videos with and without detected pose    *)
(* (part_003 lines 634-775)                                                *)
(***************************************************************************)

MaxReportFrames == 6

\* y of a joint of the standing subject, in 1/1000
StandingHeight == <<400>>

\* the values extractMetric's switch computes from the 33 landmarks of a
\* subject standing still: a height when both landmarks of the metric have
\* visibility > 0.3 (a hidden landmark has less, an unrated one none), and
\* kneeAngle / 180 = 1 whenever hip, knee and ankle exist
StillMetrics(landmarks) ==
    LET seen(i) == landmarks[i] = "visible"
        height(i, j) == IF seen(i) /\ seen(j) THEN StandingHeight ELSE NullValue
    IN  [hipHeight |-> height(23, 24),
         wristHeight |-> height(15, 16),
         shoulderHeight |-> height(11, 12),
         elbowHeight |-> height(13, 14),
         chinHeight |-> height(0, 0),
         kneeAngle |-> <<1000>>]

\* validFrameResults: the detector found a pose in the frames of
\* input.posed, with the landmarks of input.visible visible and the first
\* input.firing rules of the exercise firing; every other frame has
\* landmarks: null and no errors
ReportFramesOf(input) ==
    [f \in 1 .. input.frameCount |->
        IF f \in input.posed
          THEN LET landmarks == [i \in LandmarkIndices |->
                                  IF i \in input.visible THEN "visible" ELSE "hidden"]
               IN  [frameIndex |-> f - 1, landmarks |-> landmarks,
                    errors |-> [k \in 1 .. input.firing |->
                                  ErrorOf(ChecksOf(input.exerciseId)[k])],
                    metrics |-> StillMetrics(landmarks)]
          ELSE [frameIndex |-> f - 1, landmarks |-> Null, errors |-> <<>>,
                metrics |-> <<>>]]

ReportInit ==
    /\ pc = "report"
    /\ OrchIdle
    /\ \E e \in ExerciseIds, n \in 0 .. MaxReportFrames :
       \E posed \in SUBSET (1 .. n), v \in {TrackedLandmarks, {}},
          j \in {0, Len(ChecksOf(e))} :
          io = [input |-> [exerciseId |-> e, frameCount |-> n, posed |-> posed,
                           visible |-> v, firing |-> j],
                adaptiveReport |-> NoValue, repAnalysis |-> NoValue,
                significantErrors |-> NoValue, baseScore |-> NoValue,
                score |-> NoValue]

\* the stages after the join, up to the score of the workout record
BuildReport ==
    /\ pc = "report"
    /\ LET validFrameResults == ReportFramesOf(io.input)
           adaptiveReport ==
               generateAdaptiveReport(io.input.exerciseId, validFrameResults)
           repAnalysis == countReps(validFrameResults, io.input.exerciseId)
           significantErrors == AggregateErrors(validFrameResults)
           baseScore == BaseScore(Len(validFrameResults), Len(significantErrors))
       IN  io' = [io EXCEPT
                    !.adaptiveReport = adaptiveReport,
                    !.repAnalysis = repAnalysis,
                    !.significantErrors = significantErrors,
                    !.baseScore = baseScore,
                    !.score = FinalScore(baseScore, adaptiveReport.confidence)]
    /\ pc' = "report_done"
    /\ UNCHANGED OrchVars

ReportNext == BuildReport

ReportSpec == ReportInit /\ [][ReportNext]_vars

(***************************************************************************)
(* C18: when no frame is usable (none was extracted, or none yields        *)
(* landmarks) the report has confidence 0, baseScore 0, score 0,           *)
(* repetition count 0 and no significant errors.                           *)
(***************************************************************************)
C18_ZeroUsableFramesZeroReport ==
    (pc = "report_done" /\ io.input.posed = {}) =>
        /\ io.adaptiveReport.confidence[1] = 0
        /\ io.baseScore = 0
        /\ io.score = 0
        /\ io.repAnalysis.count = 0
        /\ io.significantErrors = <<>>

\* the exercise has a configuration in the visibility profiles and in the
\* repetition thresholds
HasComponentConfig(exerciseId) ==
    /\ exerciseId \in DOMAIN landmarkRequirements
    /\ exerciseId \in DOMAIN repThresholds

(***************************************************************************)
(* C19: an exercise without configuration in one of the components makes   *)
(* the analysis of a video with detected pose fail with an error: no       *)
(* report is ever produced for it (such as one with mode 'unknown' and     *)
(* confidence 0).                                                          *)
(***************************************************************************)
C19_MissingConfigFails ==
    (pc = "report_done" /\ io.input.posed # {}) =>
        HasComponentConfig(io.input.exerciseId)

(***************************************************************************)
(* Joint angles (calculateAngle, poseAnalysis.js lines 57-64 and           *)
(* repProgression.js lines 507-513)                                        *)
(***************************************************************************)

\* points have integer coordinates in -GridMax .. GridMax
GridMax == 1

GridPoints == [x : (-GridMax) .. GridMax, y : (-GridMax) .. GridMax]

\* atan(y / x) in 1/1000 degree for 0 <= y <= x, x > 0, |x|, |y| <= 4
AtanLowerOctant(y, x) ==
    CASE y = 0 -> 0
      [] 4 * y = x -> 14036
      [] 3 * y = x -> 18435
      [] 2 * y = x -> 26565
      [] 3 * y = 2 * x -> 33690
      [] 4 * y = 3 * x -> 36870
      [] y = x -> 45000

\* atan(y / x) in 1/1000 degree for x > 0, y >= 0
AtanFirstQuadrant(y, x) ==
    IF y <= x THEN AtanLowerOctant(y, x) ELSE 90000 - AtanLowerOctant(x, y)

\* Math.atan2(y, x) * 180 / Math.PI in 1/1000 degree, in (-180000, 180000];
\* atan2(0, 0) is 0
Atan2(y, x) ==
    IF x = 0 /\ y = 0 THEN 0
    ELSE IF x > 0 /\ y >= 0 THEN AtanFirstQuadrant(y, x)
    ELSE IF x <= 0 /\ y > 0 THEN 90000 + AtanFirstQuadrant(-x, y)
    ELSE IF x < 0 /\ y = 0 THEN 180000
    ELSE IF x < 0 /\ y < 0 THEN AtanFirstQuadrant(-y, -x) - 180000
    ELSE AtanFirstQuadrant(x, -y) - 90000

\* mutant: the angle is not folded back below 180 degrees
FoldAngle_None(angle) == angle

\* if (angle > 180.0) angle = 360 - angle
FoldAngle(angle) == IF angle > 180000 THEN 360000 - angle ELSE angle

\* the angle at b between the rays to a and to c, in 1/1000 degree
AngleAt(a, b, c) ==
    LET degrees == Atan2(c.y - b.y, c.x - b.x) - Atan2(a.y - b.y, a.x - b.x)
    IN  FoldAngle(Abs(degrees))

\* PoseAnalysisService.calculateAngle(a, b, c): 0 when a point is missing
calculateAngle(a, b, c) ==
    IF a = Null \/ b = Null \/ c = Null THEN 0 ELSE AngleAt(a, b, c)

\* RepCountingService.calculateAngle(a, b, c): 180 when a point is missing
RepCounting_calculateAngle(a, b, c) ==
    IF a = Null \/ b = Null \/ c = Null THEN 180000 ELSE AngleAt(a, b, c)

AngleInit ==
    /\ pc = "angle"
    /\ OrchIdle
    /\ \E a \in GridPoints \cup {Null}, b \in GridPoints \cup {Null},
          c \in GridPoints \cup {Null} :
          io = [a |-> a, b |-> b, c |-> c, angle |-> NoValue, swapped |-> NoValue,
                repAngle |-> NoValue, repSwapped |-> NoValue]

\* both services compute the angle at b, as (a, b, c) and as (c, b, a)
CalculateAngles ==
    /\ pc = "angle"
    /\ io' = [io EXCEPT
                !.angle = calculateAngle(io.a, io.b, io.c),
                !.swapped = calculateAngle(io.c, io.b, io.a),
                !.repAngle = RepCounting_calculateAngle(io.a, io.b, io.c),
                !.repSwapped = RepCounting_calculateAngle(io.c, io.b, io.a)]
    /\ pc' = "angle_done"
    /\ UNCHANGED OrchVars

AngleNext == CalculateAngles

AngleSpec == AngleInit /\ [][AngleNext]_vars

UsablePoints == io.a # Null /\ io.b # Null /\ io.c # Null

(***************************************************************************)
(* C20: for usable points a, b, c the angle at b lies in [0, 180] degrees  *)
(* and angle(a, b, c) = angle(c, b, a), in both services.                  *)
(***************************************************************************)
C20_AngleRangeAndSymmetry ==
    (pc = "angle_done" /\ UsablePoints) =>
        /\ 0 <= io.angle /\ io.angle <= 180000
        /\ io.angle = io.swapped
        /\ 0 <= io.repAngle /\ io.repAngle <= 180000
        /\ io.repAngle = io.repSwapped

\* a below b and c left of b: atan2 gives 180 and -90 degrees, their
\* difference of 270 is folded to 90
C20_Witness ==
    /\ pc = "angle_done"
    /\ UsablePoints
    /\ io.a.x = io.b.x /\ io.a.y < io.b.y
    /\ io.c.y = io.b.y /\ io.c.x < io.b.x
    /\ io.angle = 90000 /\ io.swapped = 90000

(***************************************************************************)
(* C21: every angle computation returns the sentinel 0 when one of its     *)
(* three points is missing.                                                *)
(***************************************************************************)
C21_SentinelZeroWhenUnusable ==
    (pc = "angle_done" /\ ~UsablePoints) =>
        /\ io.angle = 0 /\ io.swapped = 0
        /\ io.repAngle = 0 /\ io.repSwapped = 0

(***************************************************************************)
(* C22: for each range returned by countReps, the frames handed to         *)
(* analyzeRepProgression are the analyzed frames from the range's start    *)
(* index to its end index inclusive.                                       *)
(***************************************************************************)
C22_RepFramesAreTheRange ==
    pc = "progression_done" =>
        /\ Len(io.repFrames) = Len(io.repAnalysis.repRanges)
        /\ \A k \in 1 .. Len(io.repFrames) :
              LET range == io.repAnalysis.repRanges[k]
              IN  io.repFrames[k] =
                     [j \in 1 .. (range.endIndex - range.startIndex + 1) |->
                         range.startIndex + j - 1]

(***************************************************************************)
(* Rep progression service (repProgression.js lines 1-281)                 *)
(***************************************************************************)

\* this.exercisePatterns: the phase list and the primary metric
exercisePatterns ==
    [squat |-> [phases |-> <<"bottom", "ascent", "top", "descent">>,
                primaryMetric |-> "kneeAngle"],
     deadlift |-> [phases |-> <<"bottom", "ascent", "top", "descent">>,
                   primaryMetric |-> "backAngle"],
     overhead_press |-> [phases |-> <<"bottom", "drive", "overhead", "descent">>,
                         primaryMetric |-> "elbowAngle"],
     bench_press |-> [phases |-> <<"top", "descent", "bottom", "ascent">>,
                      primaryMetric |-> "elbowAngle"],
     pull_up |-> [phases |-> <<"bottom", "ascent", "top", "descent">>,
                  primaryMetric |-> "elbowAngle"]]

\* the loop of identifyPhases from position i (0-based) on: a null value is
\* skipped; the phase index advances when `current < previousValue` differs
\* from isDecreasing; the frame index is pushed to the current phase
RECURSIVE WalkPhases(_, _, _, _, _, _)
WalkPhases(metricProgression, phaseNames, i, currentPhaseIndex, previousValue, isDecreasing) ==
    IF i >= Len(metricProgression) THEN <<>>
    ELSE LET current == metricProgression[i + 1].value
         IN  IF current = NullValue
               THEN WalkPhases(metricProgression, phaseNames, i + 1,
                               currentPhaseIndex, previousValue, isDecreasing)
             ELSE LET isMovingDown == current[1] < previousValue
                      turned == isMovingDown # isDecreasing
                      nextPhaseIndex ==
                          IF turned THEN (currentPhaseIndex + 1) % Len(phaseNames)
                          ELSE currentPhaseIndex
                  IN  <<[index |-> i, phase |-> phaseNames[nextPhaseIndex + 1]]>>
                      \o WalkPhases(metricProgression, phaseNames, i + 1,
                                    nextPhaseIndex, current[1], isMovingDown)

\* identifyPhases(metricProgression, frames, pattern): per phase its
\* frameIndices; previousValue starts as metricProgression[0]?.value || 0,
\* isDecreasing as true, and the loop starts at index 1
identifyPhases(metricProgression, pattern) ==
    LET first == IF Len(metricProgression) = 0
                      \/ metricProgression[1].value = NullValue
                   THEN 0 ELSE metricProgression[1].value[1]
        pushes == WalkPhases(metricProgression, pattern.phases, 1, 0, first, TRUE)
    IN  [name \in {pattern.phases[k] : k \in 1 .. Len(pattern.phases)} |->
            LET mine == SelectSeq(pushes, LAMBDA push : push.phase = name)
            IN  [frameIndices |-> [k \in 1 .. Len(mine) |-> mine[k].index]]]

\* longest metric progression of a repetition
MaxPhaseFrames == 5

\* joint angles in degrees a frame can carry, and no value at all
PhaseValues == {NullValue, <<60>>, <<90>>, <<120>>}

PhaseInit ==
    /\ pc = "phases"
    /\ OrchIdle
    /\ \E e \in DOMAIN exercisePatterns, n \in 0 .. MaxPhaseFrames :
       \E values \in [1 .. n -> PhaseValues] :
          io = [exerciseId |-> e,
                metricProgression |-> [i \in 1 .. n |->
                                         [index |-> i - 1, value |-> values[i]]],
                phases |-> NoValue]

\* analyzeRepProgression: identifyPhases on the metric progression
IdentifyPhases ==
    /\ pc = "phases"
    /\ io' = [io EXCEPT !.phases =
                identifyPhases(io.metricProgression, exercisePatterns[io.exerciseId])]
    /\ pc' = "phases_done"
    /\ UNCHANGED OrchVars

PhaseNext == IdentifyPhases

PhaseSpec == PhaseInit /\ [][PhaseNext]_vars

\* the positions (1-based) of the phases that hold frame index i
PhasesHolding(i) ==
    {k \in 1 .. Len(exercisePatterns[io.exerciseId].phases) :
        LET indices == io.phases[exercisePatterns[io.exerciseId].phases[k]].frameIndices
        IN  \E j \in 1 .. Len(indices) : indices[j] = i}

\* the direction of travel on arriving at position p (1-based) of the
\* non-null values: that of the last step that changed the value
RECURSIVE TravelAt(_, _)
TravelAt(values, p) ==
    IF p <= 1 THEN "none"
    ELSE IF values[p] < values[p - 1] THEN "down"
    ELSE IF values[p] > values[p - 1] THEN "up"
    ELSE TravelAt(values, p - 1)

\* the direction of travel reverses on arriving at position p
ReversalAt(values, p) ==
    /\ p >= 3
    /\ values[p] # values[p - 1]
    /\ TravelAt(values, p - 1) # "none"
    /\ TravelAt(values, p) # TravelAt(values, p - 1)

(***************************************************************************)
(* C23: identifyPhases puts every frame index of the repetition into       *)
(* exactly one phase, and from one frame to the next the phase advances by *)
(* one position, cyclically, exactly when the direction of travel          *)
(* reverses.                                                               *)
(***************************************************************************)
C23_PhasesFollowReversals ==
    pc = "phases_done" =>
        LET n == Len(io.metricProgression)
            count == Len(exercisePatterns[io.exerciseId].phases)
            phaseOf(i) == CHOOSE k \in PhasesHolding(i) : TRUE
            valid == SelectSeq(io.metricProgression, LAMBDA d : d.value # NullValue)
            values == [p \in 1 .. Len(valid) |-> valid[p].value[1]]
        IN  /\ \A i \in 0 .. (n - 1) : Cardinality(PhasesHolding(i)) = 1
            /\ \A p \in 2 .. Len(valid) :
                  phaseOf(valid[p].index) - 1 =
                     ((phaseOf(valid[p - 1].index) - 1)
                        + (IF ReversalAt(values, p) THEN 1 ELSE 0)) % count

\* mutant: the summed accelerations are divided by their own number
SmoothnessDivisor_Accelerations(velocities) == Len(velocities) - 1

\* avgAcceleration = totalAcceleration / velocities.length
SmoothnessDivisor(velocities) == Len(velocities)

\* RepProgressionService.calculateSmoothness(metricProgression)
calculateSmoothness(metricProgression) ==
    LET validPoints == SelectSeq(metricProgression, LAMBDA p : p.value # NullValue)
    IN  IF Len(validPoints) < 3 THEN 100
        ELSE LET velocities ==
                     [i \in 1 .. (Len(validPoints) - 1) |->
                         validPoints[i + 1].value[1] - validPoints[i].value[1]]
                 accelerations ==
                     [i \in 1 .. (Len(velocities) - 1) |->
                         Abs(velocities[i + 1] - velocities[i])]
                 totalAcceleration == SumRange(accelerations, 1, Len(accelerations))
                 divisor == SmoothnessDivisor(velocities)
             IN  \* Math.round(Math.max(0, 100 - avgAcceleration * 5))
                 RoundDiv(Max(0, 100 * divisor - 5 * totalAcceleration), divisor)

\* longest metric progression handed to calculateSmoothness
MaxSmoothFrames == 5

\* joint angles in degrees, and no value at all
SmoothValues == {NullValue, <<150>>, <<151>>, <<160>>, <<180>>}

SmoothInit ==
    /\ pc = "smooth"
    /\ OrchIdle
    /\ \E n \in 0 .. MaxSmoothFrames :
       \E values \in [1 .. n -> SmoothValues] :
          io = [metricProgression |-> [i \in 1 .. n |->
                                         [index |-> i - 1, value |-> values[i]]],
                smoothness |-> NoValue]

\* analysis.quality.smoothness = this.calculateSmoothness(metricProgression)
CalculateSmoothness ==
    /\ pc = "smooth"
    /\ io' = [io EXCEPT !.smoothness = calculateSmoothness(io.metricProgression)]
    /\ pc' = "smooth_done"
    /\ UNCHANGED OrchVars

SmoothNext == CalculateSmoothness

SmoothSpec == SmoothInit /\ [][SmoothNext]_vars

\* the absolute second differences of a sequence of numbers
SecondDifferences(values) ==
    [i \in 1 .. (Len(values) - 2) |->
        Abs((values[i + 2] - values[i + 1]) - (values[i + 1] - values[i]))]

(***************************************************************************)
(* C24: calculateSmoothness returns 100 for fewer than 3 non-null values   *)
(* and otherwise round(max(0, 100 - 5 * m)) with m the sum of the absolute *)
(* second differences of the non-null values divided by their number; the  *)
(* result lies in [0, 100].                                                *)
(***************************************************************************)
C24_SmoothnessIsMeanJerk ==
    pc = "smooth_done" =>
        LET valid == SelectSeq(io.metricProgression, LAMBDA p : p.value # NullValue)
            jerks == SecondDifferences([i \in 1 .. Len(valid) |-> valid[i].value[1]])
            total == SumRange(jerks, 1, Len(jerks))
        IN  /\ 0 <= io.smoothness /\ io.smoothness <= 100
            /\ io.smoothness =
                  (IF Len(valid) < 3 THEN 100
                   ELSE IF 5 * total >= 100 * Len(jerks) THEN 0
                   ELSE (2 * (100 * Len(jerks) - 5 * total) + Len(jerks))
                           \div (2 * Len(jerks)))

(***************************************************************************)
(* Filtering of the extrema (filterSignificantPoints, repProgression.js    *)
(* lines 583-609)                                                          *)
(***************************************************************************)

\* extrema lie on the frames 0 .. MaxFilterIndex
MaxFilterIndex == 4

\* smoothed metric values of an extremum, in 1/1000
ExtremumValues == {400, 450, 520}

\* adaptive thresholds, in 1/1000
FilterThresholds == {70, 100}

FilterInit ==
    /\ pc = "filter"
    /\ OrchIdle
    /\ \E kinds \in [0 .. MaxFilterIndex -> {"none", "peak", "valley"}],
          values \in [0 .. MaxFilterIndex -> ExtremumValues],
          minAmplitude \in FilterThresholds :
          /\ \A i \in 0 .. MaxFilterIndex :
                kinds[i] = "none" => values[i] = 400
          /\ io = [input |-> [kinds |-> kinds, values |-> values,
                              minAmplitude |-> minAmplitude * SmoothScale],
                   filtered |-> NoValue]

\* the raw peaks or valleys of the input, in frame order
RawExtrema(input, kind) ==
    LET at == SelectSeq([k \in 1 .. (MaxFilterIndex + 1) |-> k - 1],
                        LAMBDA i : input.kinds[i] = kind)
    IN  [j \in 1 .. Len(at) |->
            [index |-> at[j], value |-> input.values[at[j]] * SmoothScale]]

\* findPeaksAndValleys: return this.filterSignificantPoints(peaks, valleys,
\* minAmplitude)
FilterSignificant ==
    /\ pc = "filter"
    /\ io' = [io EXCEPT !.filtered =
                filterSignificantPoints(RawExtrema(io.input, "peak"),
                                        RawExtrema(io.input, "valley"),
                                        io.input.minAmplitude)]
    /\ pc' = "filter_done"
    /\ UNCHANGED OrchVars

FilterNext == FilterSignificant

FilterSpec == FilterInit /\ [][FilterNext]_vars

\* frames that carry an extremum before / after the filter
RawFrames == {i \in 0 .. MaxFilterIndex : io.input.kinds[i] # "none"}

KeptFrames ==
    {io.filtered.peaks[k].index : k \in 1 .. Len(io.filtered.peaks)}
    \cup {io.filtered.valleys[k].index : k \in 1 .. Len(io.filtered.valleys)}

\* the last kept extremum before frame i
LastKeptBefore(i) ==
    CHOOSE k \in KeptFrames : k < i /\ \A j \in KeptFrames : j < i => j <= k

ValueGap(i, j) == Abs(io.input.values[i] - io.input.values[j]) * SmoothScale

(***************************************************************************)
(* C25: after filterSignificantPoints the first extremum in time order is  *)
(* kept, two consecutive kept extrema differ by at least the threshold,    *)
(* and a dropped extremum differs from the last kept one before it by less *)
(* than the threshold.                                                     *)
(***************************************************************************)
C25_FilterKeepsSignificant ==
    pc = "filter_done" =>
        /\ KeptFrames \subseteq RawFrames
        /\ \A i \in RawFrames :
              IF \A j \in RawFrames : i <= j
                THEN i \in KeptFrames
                ELSE /\ \E k \in KeptFrames : k < i
                     /\ i \in KeptFrames <=>
                           ValueGap(i, LastKeptBefore(i)) >= io.input.minAmplitude
        /\ \A k \in 1 .. Len(io.filtered.peaks) :
              /\ io.input.kinds[io.filtered.peaks[k].index] = "peak"
              /\ io.filtered.peaks[k].value
                    = io.input.values[io.filtered.peaks[k].index] * SmoothScale
        /\ \A k \in 1 .. Len(io.filtered.valleys) :
              io.input.kinds[io.filtered.valleys[k].index] = "valley"

\* threshold 0.100: the extremum at 0.450 is dropped against 0.400, and the
\* next one at 0.520, only 0.070 from the dropped one, is kept against 0.400
C25_Witness ==
    /\ pc = "filter_done"
    /\ io.input.minAmplitude = 100 * SmoothScale
    /\ RawFrames = {0, 1, 2}
    /\ io.input.values[0] = 400 /\ io.input.values[1] = 450
    /\ io.input.values[2] = 520
    /\ KeptFrames = {0, 2}

\* the frames of the window in which landmark i is visible
FramesShowing(i) ==
    {f \in 1 .. Len(io.input.frames) :
        /\ io.input.frames[f].landmarks # Null
        /\ CountsAsVisible(io.input.frames[f].landmarks[i])}

(***************************************************************************)
(* C26: landmark i is available exactly when the number of frames of the   *)
(* window in which it is visible, divided by the number of frames of the   *)
(* window, reaches consistencyThreshold (here the default 0.7); a frame    *)
(* without landmarks is a frame in which i is not visible.                 *)
(***************************************************************************)
C26_AvailableIffVisibleShare ==
    (pc = "avail_done" /\ io.input.lower = DefaultConsistencyThreshold) =>
        \A i \in LandmarkIndices :
            i \in io.atLower <=>
                /\ Len(io.input.frames) > 0
                /\ Cardinality(FramesShowing(i)) * io.input.lower[2]
                      >= io.input.lower[1] * Len(io.input.frames)

\* the detector call or the feature extraction of the frame throws
FrameAnalysisThrows == io.det.kind \in {"rejects", "unusable"}

(***************************************************************************)
(* C27: a frame for which the fallback itself fails is marked failed       *)
(* (success = false) and is not among the analyzed frames.                 *)
(***************************************************************************)
C27_FailedFallbackFrameExcluded ==
    (pc = "frame_done" /\ FrameAnalysisThrows) =>
        /\ io.fallbackRecord.success = FALSE
        /\ SuccessfulResults(<<io.fallbackRecord>>) = <<>>

(***************************************************************************)
(* Frames without detected pose, from the frame loops to the error         *)
(* frequencies (part_005 lines 38-78, part_003 lines 396-436, 587-596,     *)
(* 733-762)                                                                *)
(***************************************************************************)

\* most frames of a video in this specification
MaxMissFrames == 4

\* the pose in which every rule of the exercise fires
AllRulesFire(exercise) ==
    [kind |-> "pose", checks |-> [c \in CheckIds(exercise) |-> "true"]]

\* the record of frame i (0-based) of the input: it went through the worker
\* or through the fallback, and the detector found no landmarks or a pose in
\* which every rule fires
MissFrameRecord(input, i) ==
    LET exercise == configGetExerciseById(input.exerciseId)
        det == IF input.detected[i + 1] THEN AllRulesFire(exercise)
               ELSE [kind |-> "none"]
        frame == [time |-> 50 * i]
    IN  IF input.viaFallback[i + 1]
          THEN FallbackFrameRecord([index |-> i, frame |-> frame], exercise, det)
          ELSE WorkerFrameRecord(frame, i, exercise.id, det)

\* mutant: only results with landmarks are collected
CollectFrameResults_WithPose(allResults) ==
    LET kept == SelectSeq(allResults, LAMBDA r : r.success /\ r.landmarks # Null)
    IN  [k \in 1 .. Len(kept) |->
            [time |-> kept[k].time, frameIndex |-> kept[k].originalIndex,
             errors |-> kept[k].errors, landmarks |-> kept[k].landmarks,
             analysis |-> kept[k].analysis]]

\* for (const result of allResults) if (result.success) frameResults.push({
\* time, frameIndex: result.originalIndex, errors, landmarks, dataUrl,
\* ...result.analysis })
CollectFrameResults(allResults) ==
    LET kept == SuccessfulResults(allResults)
    IN  [k \in 1 .. Len(kept) |->
            [time |-> kept[k].time, frameIndex |-> kept[k].originalIndex,
             errors |-> kept[k].errors, landmarks |-> kept[k].landmarks,
             analysis |-> kept[k].analysis]]

MissInit ==
    /\ pc = "miss"
    /\ OrchIdle
    /\ \E e \in ExerciseIds, n \in 1 .. MaxMissFrames :
       \E detected \in [1 .. n -> BOOLEAN], viaFallback \in [1 .. n -> BOOLEAN] :
          io = [input |-> [exerciseId |-> e, detected |-> detected,
                           viaFallback |-> viaFallback],
                validFrameResults |-> NoValue, significantErrors |-> NoValue]

\* the batches resolve and analyzeVideo collects frameResults
CollectFrames ==
    /\ pc = "miss"
    /\ io' = [io EXCEPT !.validFrameResults =
                CollectFrameResults([k \in 1 .. Len(io.input.detected) |->
                                        MissFrameRecord(io.input, k - 1)])]
    /\ pc' = "miss_collected"
    /\ UNCHANGED OrchVars

\* the ERROR AGGREGATION block
AggregateIssues ==
    /\ pc = "miss_collected"
    /\ io' = [io EXCEPT !.significantErrors = AggregateErrors(io.validFrameResults)]
    /\ pc' = "miss_done"
    /\ UNCHANGED OrchVars

MissNext == CollectFrames \/ AggregateIssues

MissSpec == MissInit /\ [][MissNext]_vars

\* the frames of the input in which the detector found a pose / none
FramesDetected == {i \in 1 .. Len(io.input.detected) : io.input.detected[i]}
FramesMissed == {i \in 1 .. Len(io.input.detected) : ~io.input.detected[i]}

(***************************************************************************)
(* C28: a frame in which the detector finds no landmarks yields a result   *)
(* with no issues and empty features, on the worker path and on the        *)
(* fallback path, and it counts in the denominator of every error          *)
(* frequency: a rule that fires in every frame with a pose is significant  *)
(* exactly when (frames with pose) / (all frames) reaches its threshold.   *)
(***************************************************************************)
C28_MissedFrameStillCounted ==
    /\ pc \in {"miss_collected", "miss_done"} =>
          /\ Len(io.validFrameResults) = Len(io.input.detected)
          /\ \A i \in FramesMissed :
                /\ io.validFrameResults[i].frameIndex = i - 1
                /\ io.validFrameResults[i].landmarks = Null
                /\ io.validFrameResults[i].errors = <<>>
                /\ io.validFrameResults[i].analysis = [empty |-> TRUE]
    /\ pc = "miss_done" =>
          \A k \in 1 .. Len(ChecksOf(io.input.exerciseId)) :
              LET check == ChecksOf(io.input.exerciseId)[k]
              IN  (\E j \in 1 .. Len(io.significantErrors) :
                      io.significantErrors[j].id = check.id)
                  <=> /\ FramesDetected # {}
                      /\ Cardinality(FramesDetected) * 100
                            >= thresholdFrequency(check.severity)
                                 * Len(io.input.detected)

\* four frames, the pose is found in one of them and missed in three, on
\* both paths: the squat rules fire in 25% of the frames, so the low rule
\* (threshold 30%) is dropped and the others are kept
C28_Witness ==
    /\ pc = "miss_done"
    /\ io.input.exerciseId = "squat"
    /\ Len(io.input.detected) = 4
    /\ Cardinality(FramesDetected) = 1
    /\ \E i \in FramesMissed : io.input.viaFallback[i]
    /\ \E i \in FramesMissed : ~io.input.viaFallback[i]
    /\ Len(io.significantErrors) = 7
    /\ \A j \in 1 .. Len(io.significantErrors) :
          io.significantErrors[j].id # "knee_forward_travel"

(***************************************************************************)
(* Concurrent fallbacks on the one detector of the page                    *)
(* (analyzeFrame, poseAnalysis.js lines 523-535; analyzeFramesFallback,    *)
(* part_003 lines 391-451)                                                 *)
(***************************************************************************)

\* batches whose worker failed and that run analyzeFramesFallback
RaceBatches == 3

\* frames per batch
RaceFramesPerBatch == 2

\* an analyzeFrame call, and the image it sends, is named <<batch, frame>>
RaceCalls == (1 .. RaceBatches) \X (1 .. RaceFramesPerBatch)

NoCall == <<>>

\* io.next[b]: the frame the loop of batch b is at; io.waiting[b]: its
\* analyzeFrame call is awaited; io.callback: the call whose resolver is
\* registered with pose.onResults; io.queue: the images sent and not yet
\* processed; io.resolvedWith[c]: the image whose result call c resolved with
RaceInit ==
    /\ pc = "race"
    /\ OrchIdle
    /\ io = [next |-> [b \in 1 .. RaceBatches |-> 1],
             waiting |-> [b \in 1 .. RaceBatches |-> FALSE],
             callback |-> NoCall,
             queue |-> <<>>,
             resolvedWith |-> [c \in RaceCalls |-> NoCall]]

\* await poseAnalysisService.analyzeFrame(frame.imageData) in the loop of
\* batch b: this.pose.onResults(resolver) replaces the registered callback,
\* this.pose.send({image}) hands the image to the detector
CallAnalyzeFrame(b) ==
    /\ pc = "race"
    /\ ~io.waiting[b]
    /\ io.next[b] <= RaceFramesPerBatch
    /\ io' = [io EXCEPT !.waiting[b] = TRUE,
                        !.callback = <<b, io.next[b]>>,
                        !.queue = Append(io.queue, <<b, io.next[b]>>)]
    /\ UNCHANGED <<pc, OrchVars>>

\* the detector finishes the oldest image and calls the registered callback
\* with its results; resolving a promise that is already resolved does
\* nothing; the loop of the resolved call goes on to its next frame
DetectorDelivers ==
    /\ pc = "race"
    /\ io.queue # <<>>
    /\ LET image == Head(io.queue)
           call == io.callback
       IN  IF io.resolvedWith[call] = NoCall
             THEN io' = [io EXCEPT !.queue = Tail(io.queue),
                                 !.resolvedWith[call] = image,
                                 !.waiting[call[1]] = FALSE,
                                 !.next[call[1]] = io.next[call[1]] + 1]
             ELSE io' = [io EXCEPT !.queue = Tail(io.queue)]
    /\ UNCHANGED <<pc, OrchVars>>

RaceNext == (\E b \in 1 .. RaceBatches : CallAnalyzeFrame(b)) \/ DetectorDelivers

RaceSpec == RaceInit /\ [][RaceNext]_vars

(***************************************************************************)
(* C29: with several fallbacks running at once, an analyzeFrame call       *)
(* resolves with the detector result of the image it sent.                 *)
(***************************************************************************)
C29_CallGetsOwnResult ==
    pc = "race" =>
        \A c \in RaceCalls :
            io.resolvedWith[c] # NoCall => io.resolvedWith[c] = c

\* no call is left waiting once the detector has processed every image
C29_NoCallLeftWaiting ==
    (pc = "race" /\ io.queue = <<>>) =>
        \A b \in 1 .. RaceBatches : ~io.waiting[b]

(***************************************************************************)
(* C30: no worker is terminated twice or before it replied or raised an    *)
(* error, and once all batches have resolved no worker of the analysis is  *)
(* left alive.                                                             *)
(***************************************************************************)
C30_NoWorkerLeftAfterJoin ==
    /\ \A b \in DOMAIN worker :
          worker[b] = "terminated" => workerOutcome[b] \in {"success", "error"}
    /\ (pc \in {"dispatched", "saving", "done"} /\ AllResolved) =>
          \A b \in DOMAIN worker : worker[b] \in {"none", "terminated"}

=============================================================================
